---- MODULE Spec2Model ----
(***************************************************************************)
(* SentinelX coordinator: the fleet registry (ClientManager over a         *)
(* DashMap), the durable store (Database: tables clients and client_tasks) *)
(* and the JSON-RPC handlers client.register, client.heartbeat,            *)
(* relay.start, relay.stop and iptables.update, together with the periodic *)
(* cleanup task.                                                           *)
(*                                                                         *)
(* Every await point of a handler is a step boundary: a handler is a       *)
(* request slot whose pc walks through the handler's awaits.  Spec runs    *)
(* the handlers and the cleanup pass one at a time; SpecConc lets up to    *)
(* MaxCalls handlers and the cleanup pass interleave at their awaits.      *)
(* Time is in seconds.  uuid::Uuid::new_v4 is modelled by fresh counters.  *)
(***************************************************************************)
EXTENDS Integers, Sequences, FiniteSets, TLC

\* ------------------------------------------------------------------ bounds
ClientIds == {"c1", "c2"}
\* Spec
MaxTime == 240
MaxTokens == 2
\* SpecTasks
QueueMaxTokens == 1
QueueMaxTasks == 2
\* SpecConc
ConcMaxTime == 180
ConcMaxTokens == 1
ConcMaxTasks == 1
MaxCalls == 2
\* the clock's step
Granule == 30
\* SpecFaults
FaultMaxTime == 180
FaultMaxTokens == 2
\* SpecBacklog
BacklogMaxTime == 180
BacklogMaxTokens == 2
BacklogMaxTasks == 1
\* SpecAgent
AgentMaxTime == 180
AgentMaxTokens == 3

DispatchMaxTasks == 2
\* SpecRelay
MaxRelayCalls == 2
MaxRelayTasks == 2
MaxAccepts == 2
\* SpecPump
MaxBytes == 2
\* SpecCrypto
MaxPlain == 2
MaxNonces == 2
\* SpecStream
MaxWrites == 2
MaxReadBuf == 2
MaxReadErrors == 2
MaxWriteErrors == 1
\* SpecLimiter
MaxRate == 2
MaxLimiterTicks == 3
\* SpecIptables
MaxRules == 2
MaxIptablesTasks == 2

MaxProxyConns == 2
MaxProxyBytes == 2

Calls == 1..MaxCalls

\* ------------------------------------------------------- program constants
\* chrono::Duration::seconds(120) in cleanup_inactive_clients
HeartbeatTimeout == 120
\* interval(Duration::from_secs(60)) in start_cleanup_task
CleanupInterval == 60
\* jsonrpsee ErrorCode::InternalError.code()
InternalError == -32603
\* vec![0u8; 8192] in relay_traffic
BufSize == 8192
\* [0u8; 12] in encrypt_data, split_at(12) in decrypt_data and Crypto::decrypt
NonceLen == 12
\* the authentication tag Aes256Gcm and ChaCha20Poly1305 append to a ciphertext
TagLen == 16
\* key.len() != 32 in new_aes256 and new_chacha20
KeyLen == 32
\* bytes / 1024 in wait_for_capacity and try_consume
KiB == 1024

VARIABLES
    now,         \* Utc::now(), seconds since the coordinator started
    nextTick,    \* deadline of the cleanup ticker's next tick
    clients,     \* ClientManager.clients: client id -> ClientState
    db_clients,  \* table clients: id -> row
    db_tasks,    \* table client_tasks: a set of rows, unique by id
    tokens,      \* number of tokens generate_token has produced
    calls,       \* request slots: the RPC handlers in flight and their last result
    sweep,       \* the cleanup task: pc, the pass's now, to_remove, current id
    delivered,   \* history: the ids of the tasks that went out in a heartbeat response
    agent,       \* the agent process: its registration loop, its task loop, its token
    active_relays, \* RelayManager.active_relays: relay id -> RelayConnection
    relay_lock,  \* the RwLock around active_relays: holders and the FIFO of waiters
    relay_calls, \* start_relay / stop_relay calls in flight and their result
    relay_tasks, \* the background tasks start_relay has spawned
    wire,        \* one relayed connection: per direction, the bytes sent and forwarded
    pumps,       \* the two copy tasks of relay_traffic: pc and buffer
    relay_conn,  \* handle_relay_connection of that connection: at the select or returned
    conn_config, \* the RelayConfig handle_relay_connection of that connection was given
    crypto,      \* one use of a cipher: what was sealed, what was opened, the result
    stream,      \* one SymmetricEncryptedStream, its underlying connection, its two ends
    limiter,     \* one RateLimiter: the governor bucket, the call in progress, the last result
    iptables,    \* the IptablesManager: applied_rules and the process_task call in progress
    stats,       \* the ProxyServer's StatsCollector
    proxy        \* the connections ProxyServer::start has accepted

serverVars == <<now, nextTick, clients, db_clients, db_tasks, tokens, calls, sweep, delivered>>
agentVars == <<agent>>
relayVars == <<active_relays, relay_lock, relay_calls, relay_tasks>>
pumpVars == <<wire, pumps, relay_conn, conn_config>>

toolVars == <<crypto, stream, limiter, iptables>>
proxyVars == <<stats, proxy>>

\* the state of the agent process (sentinel-client)
clientSide == <<agentVars, relayVars, pumpVars, toolVars, proxyVars>>

vars == <<serverVars, clientSide>>

Min(a, b) == IF a <= b THEN a ELSE b

\* ------------------------------------------------------------------- types
\* sentinel_common::TaskType <-> the task_type column of client_tasks
TaskTypeStr(task_type) ==
    CASE task_type = "StartRelay" -> "start_relay"
      [] task_type = "StopRelay" -> "stop_relay"
      [] task_type = "UpdateIptables" -> "update_iptables"
      [] task_type = "ConfigureProxy" -> "configure_proxy"
      [] task_type = "UpdateConfig" -> "update_config"

\* the match in get_pending_tasks; "" stands for the `_ => return None` arm
ParseTaskType(s) ==
    CASE s = "start_relay" -> "StartRelay"
      [] s = "stop_relay" -> "StopRelay"
      [] s = "update_iptables" -> "UpdateIptables"
      [] s = "configure_proxy" -> "ConfigureProxy"
      [] s = "update_config" -> "UpdateConfig"
      [] OTHER -> ""

NoResult == [kind |-> "none", code |-> 0, message |-> "", token |-> 0, tasks |-> <<>>]

\* ErrorObjectOwned::owned(ErrorCode::InternalError.code(), e.to_string(), None)
ErrorResult(msg) ==
    [kind |-> "error", code |-> InternalError, message |-> msg, token |-> 0, tasks |-> <<>>]

\* RegisterResponse { client_id: "", token }
RegisterResponse(token) ==
    [kind |-> "ok", code |-> 0, message |-> "", token |-> token, tasks |-> <<>>]

\* HeartbeatResponse { status: "ok", tasks }
HeartbeatResponse(tasks) ==
    [kind |-> "ok", code |-> 0, message |-> "", token |-> 0, tasks |-> tasks]

IdleCall ==
    [op |-> "none", client_id |-> "", token |-> 0, metrics |-> FALSE,
     pc |-> "idle", with |-> {}, result |-> NoResult]

\* NewClientState that keeps the last_heartbeat of the record it replaces
NewClientStateKeepsHeartbeat(id, token) ==
    [info |-> [id |-> id], status |-> "Online",
     last_heartbeat |-> IF id \in DOMAIN clients THEN clients[id].last_heartbeat ELSE now,
     metrics |-> FALSE, token |-> token]

\* ClientState built by register_client
NewClientState(id, token) ==
    [info |-> [id |-> id], status |-> "Online", last_heartbeat |-> now,
     metrics |-> FALSE, token |-> token]

\* ------------------------------------------------------------ map helpers
\* DashMap::insert / an INSERT keyed by id
Put(map, key, value) ==
    [k \in DOMAIN map \cup {key} |-> IF k = key THEN value ELSE map[k]]

\* DashMap::remove
Drop(map, key) == [k \in DOMAIN map \ {key} |-> map[k]]

\* ------------------------------------------------------------------- store
\* save_client: INSERT ... ON CONFLICT (id) DO UPDATE.  The conflict arm sets
\* hostname, ip_address, version, capabilities and last_heartbeat; it leaves
\* status and the metrics columns as they are.
DbSaveClient(id) ==
    IF id \in DOMAIN db_clients
    THEN [db_clients EXCEPT ![id].last_heartbeat = now]
    ELSE Put(db_clients, id, [status |-> "online", last_heartbeat |-> now, metrics |-> FALSE])

\* update_heartbeat: UPDATE clients SET last_heartbeat, status = 'online' WHERE id
DbUpdateHeartbeat(id) ==
    IF id \in DOMAIN db_clients
    THEN [db_clients EXCEPT ![id].last_heartbeat = now, ![id].status = "online"]
    ELSE db_clients

\* update_status: UPDATE clients SET status WHERE id
DbUpdateStatus(id, status) ==
    IF id \in DOMAIN db_clients
    THEN [db_clients EXCEPT ![id].status = status]
    ELSE db_clients

\* save_metrics: UPDATE clients SET <metrics columns> WHERE id
DbSaveMetrics(id) ==
    IF id \in DOMAIN db_clients
    THEN [db_clients EXCEPT ![id].metrics = TRUE]
    ELSE db_clients

\* DbCreateTask that stores the row only for a client the registry holds
DbCreateTaskIfOnline(client_id, task) ==
    IF client_id \in DOMAIN clients
    THEN db_tasks \cup {[id |-> task.id, client_id |-> client_id,
                         task_type |-> TaskTypeStr(task.task_type), payload |-> task.payload,
                         status |-> "pending", created_at |-> task.created_at]}
    ELSE db_tasks \cup {[id |-> task.id, client_id |-> client_id,
                         task_type |-> TaskTypeStr(task.task_type), payload |-> task.payload,
                         status |-> "failed", created_at |-> task.created_at]}

\* create_task: INSERT INTO client_tasks (...) VALUES (..., 'pending', created_at)
DbCreateTask(client_id, task) ==
    db_tasks \cup {[id |-> task.id, client_id |-> client_id,
                    task_type |-> TaskTypeStr(task.task_type), payload |-> task.payload,
                    status |-> "pending", created_at |-> task.created_at]}

\* DbPendingRows without the client_id condition of the WHERE clause
DbPendingRowsAnyClient(client_id) ==
    {r \in db_tasks : r.status = "pending"}

\* get_pending_tasks, the WHERE clause
DbPendingRows(client_id) ==
    {r \in db_tasks : r.client_id = client_id /\ r.status = "pending"}

\* get_pending_tasks, ORDER BY created_at ASC: every listing of the rows in
\* which created_at never decreases (rows with equal created_at come in an
\* order the store chooses)
OrderByCreatedAt(rows) ==
    {s \in [1..Cardinality(rows) -> rows] :
        /\ \A i, j \in DOMAIN s : i # j => s[i] # s[j]
        /\ \A i, j \in DOMAIN s : i < j => s[i].created_at <= s[j].created_at}

RowKnown(r) == ParseTaskType(r.task_type) # ""

RowTask(r) ==
    [id |-> r.id, task_type |-> ParseTaskType(r.task_type), payload |-> r.payload,
     created_at |-> r.created_at]

\* get_pending_tasks, the filter_map over the fetched rows
RowsToTasks(rows) ==
    LET kept == SelectSeq(rows, RowKnown)
    IN  [i \in DOMAIN kept |-> RowTask(kept[i])]

\* a store call returns Ok (TRUE) or a sqlx error (FALSE)
StoreOutcomes(b) == IF b.store_fails THEN BOOLEAN ELSE {TRUE}

\* ------------------------------------------------------------- scheduling
InFlight(c) == calls[c].pc \notin {"idle", "done"}

\* a RefMut returned by clients.get_mut(id) is alive: update_heartbeat and
\* update_metrics hold it across their store call
LockHeld(id) ==
    \E c \in Calls : /\ calls[c].client_id = id
                     /\ calls[c].pc \in {"db_update_heartbeat", "db_save_metrics",
                                          "db_insert_metrics"}

Quiescent == sweep.pc = "tick" /\ \A c \in Calls : calls[c].pc = "idle"

\* a request takes the lowest free slot; when b.serial, only while nothing else runs
CanBegin(c, b) ==
    /\ calls[c].pc = "idle"
    /\ \A d \in 1..(c - 1) : calls[d].pc # "idle"
    /\ b.serial => Quiescent

\* slot c starts a handler; `with` records the slots whose handler overlaps it
Begun(c, call) ==
    [d \in Calls |->
        IF d = c
        THEN [call EXCEPT !.with = {x \in Calls \ {c} : InFlight(x)}]
        ELSE [calls[d] EXCEPT !.with = IF InFlight(d) THEN @ \cup {c} ELSE @]]

Finished(c, result) == [calls EXCEPT ![c].pc = "done", ![c].result = result]

Moved(c, pc) == [calls EXCEPT ![c].pc = pc]

\* ------------------------------------------------------ client.register
\* register_client up to its await: generate_token, clients.insert
RegisterCall(c, id, b) ==
    /\ CanBegin(c, b)
    /\ ~LockHeld(id)
    /\ tokens < b.tokens
    /\ tokens' = tokens + 1
    /\ clients' = Put(clients, id, NewClientState(id, tokens + 1))
    /\ calls' = Begun(c, [IdleCall EXCEPT !.op = "register", !.client_id = id,
                                          !.token = tokens + 1, !.pc = "save_client"])
    /\ UNCHANGED <<now, nextTick, db_clients, db_tasks, sweep, delivered>>

\* RegisterSave that takes the record out of the registry again when the store fails
RegisterSaveRollsBack(c, b) ==
    /\ calls[c].pc = "save_client"
    /\ \E ok \in StoreOutcomes(b) :
        IF ok
        THEN /\ db_clients' = DbSaveClient(calls[c].client_id)
             /\ clients' = clients
             /\ calls' = Finished(c, RegisterResponse(calls[c].token))
        ELSE /\ db_clients' = db_clients
             /\ clients' = Drop(clients, calls[c].client_id)
             /\ calls' = Finished(c, ErrorResult("store error"))
    /\ UNCHANGED <<now, nextTick, db_tasks, tokens, sweep, delivered>>

\* db.save_client(&info).await?, then Ok(token) and the RegisterResponse
RegisterSave(c, b) ==
    /\ calls[c].pc = "save_client"
    /\ \E ok \in StoreOutcomes(b) :
        IF ok
        THEN /\ db_clients' = DbSaveClient(calls[c].client_id)
             /\ calls' = Finished(c, RegisterResponse(calls[c].token))
        ELSE /\ db_clients' = db_clients
             /\ calls' = Finished(c, ErrorResult("store error"))
    /\ UNCHANGED <<now, nextTick, clients, db_tasks, tokens, sweep, delivered>>

\* ----------------------------------------------------- client.heartbeat
\* UpdateHeartbeat that inserts a record for an unknown id instead of bailing
UpdateHeartbeatUpsert(id) ==
    [found |-> TRUE,
     clients |-> Put(clients, id,
                     IF id \in DOMAIN clients
                     THEN [clients[id] EXCEPT !.last_heartbeat = now, !.status = "Online"]
                     ELSE NewClientState(id, 0))]

\* update_heartbeat up to its await: get_mut, then the two field writes, or
\* the bail!("Client not found") of the else arm
UpdateHeartbeat(id) ==
    IF id \in DOMAIN clients
    THEN [found |-> TRUE,
          clients |-> [clients EXCEPT ![id].last_heartbeat = now, ![id].status = "Online"]]
    ELSE [found |-> FALSE, clients |-> clients]

HeartbeatCall(c, id, token, metrics, b) ==
    /\ CanBegin(c, b)
    /\ ~LockHeld(id)
    /\ LET call == [IdleCall EXCEPT !.op = "heartbeat", !.client_id = id,
                                    !.token = token, !.metrics = metrics]
           updated == UpdateHeartbeat(id)
       IN  /\ clients' = updated.clients
           /\ calls' = IF updated.found
                        THEN Begun(c, [call EXCEPT !.pc = "db_update_heartbeat"])
                        ELSE Begun(c, [call EXCEPT !.pc = "done",
                                          !.result = ErrorResult("Client not found")])
    /\ UNCHANGED <<now, nextTick, db_clients, db_tasks, tokens, sweep, delivered>>

\* self.db.update_heartbeat(client_id).await? ; the RefMut is dropped after it
HeartbeatSave(c, b) ==
    /\ calls[c].pc = "db_update_heartbeat"
    /\ \E ok \in StoreOutcomes(b) :
        IF ok
        THEN /\ db_clients' = DbUpdateHeartbeat(calls[c].client_id)
             /\ calls' = Moved(c, IF calls[c].metrics THEN "update_metrics"
                                                      ELSE "get_pending_tasks")
        ELSE /\ db_clients' = db_clients
             /\ calls' = Finished(c, ErrorResult("store error"))
    /\ UNCHANGED <<now, nextTick, clients, db_tasks, tokens, sweep, delivered>>

\* update_metrics up to its await: get_mut, client.metrics = Some(metrics);
\* a missing record is skipped without an error
HeartbeatMetrics(c) ==
    /\ calls[c].pc = "update_metrics"
    /\ ~LockHeld(calls[c].client_id)
    /\ IF calls[c].client_id \in DOMAIN clients
       THEN /\ clients' = [clients EXCEPT ![calls[c].client_id].metrics = TRUE]
            /\ calls' = Moved(c, "db_save_metrics")
       ELSE /\ clients' = clients
            /\ calls' = Moved(c, "get_pending_tasks")
    /\ UNCHANGED <<now, nextTick, db_clients, db_tasks, tokens, sweep, delivered>>

\* self.db.save_metrics(client_id, &metrics).await?, its first statement:
\* UPDATE clients SET <metrics columns> ... .await?
HeartbeatMetricsSave(c, b) ==
    /\ calls[c].pc = "db_save_metrics"
    /\ \E ok \in StoreOutcomes(b) :
        IF ok
        THEN /\ db_clients' = DbSaveMetrics(calls[c].client_id)
             /\ calls' = Moved(c, "db_insert_metrics")
        ELSE /\ db_clients' = db_clients
             /\ calls' = Finished(c, ErrorResult("store error"))
    /\ UNCHANGED <<now, nextTick, clients, db_tasks, tokens, sweep, delivered>>

\* save_metrics, its second statement: INSERT INTO client_metrics ... .await?
\* A failure is the handler's error and leaves the columns the first statement
\* wrote; the RefMut of update_metrics is dropped after it.  The rows of
\* client_metrics are read by no code of the coordinator and are not kept.
HeartbeatMetricsInsert(c, b) ==
    /\ calls[c].pc = "db_insert_metrics"
    /\ \E ok \in StoreOutcomes(b) :
        calls' = IF ok THEN Moved(c, "get_pending_tasks")
                       ELSE Finished(c, ErrorResult("store error"))
    /\ UNCHANGED <<now, nextTick, clients, db_clients, db_tasks, tokens, sweep, delivered>>

\* ctx.get_pending_tasks(&req.client_id).await? and the HeartbeatResponse
HeartbeatFetch(c, b) ==
    /\ calls[c].pc = "get_pending_tasks"
    /\ \E ok \in StoreOutcomes(b) :
        IF ok
        THEN \E rows \in OrderByCreatedAt(DbPendingRows(calls[c].client_id)) :
                calls' = Finished(c, HeartbeatResponse(RowsToTasks(rows)))
        ELSE calls' = Finished(c, ErrorResult("store error"))
    /\ UNCHANGED <<now, nextTick, clients, db_clients, db_tasks, tokens, sweep, delivered>>

\* the ids of the tasks a result carries
TaskIds(result) == {result.tasks[i].id : i \in DOMAIN result.tasks}

\* the handler's result goes out to the caller and the slot is free again;
\* history: the tasks of the response count as delivered from here on
Reply(c) ==
    /\ calls[c].pc = "done"
    /\ calls' = [d \in Calls |->
                    IF d = c THEN IdleCall ELSE [calls[d] EXCEPT !.with = @ \ {c}]]
    /\ delivered' = delivered \cup TaskIds(calls[c].result)
    /\ UNCHANGED <<now, nextTick, clients, db_clients, db_tasks, tokens, sweep>>

\* ---------------------------------------------------------- client.list
\* list_clients: the info of every entry of the map
ListClients == {clients[id].info : id \in DOMAIN clients}

\* metrics.get_summary: both counts are the length of list_clients()
GetSummary ==
    [total_clients |-> Cardinality(ListClients), online_clients |-> Cardinality(ListClients)]

\* ------------------------------------- relay.start, relay.stop, iptables.update
RelayConfigs ==
    {[entry_point |-> "127.0.0.1:9001", exit_point |-> "127.0.0.1:9002",
      transport_type |-> "Direct"]}

RuleLists ==
    {<<[action |-> "Append", chain |-> "INPUT", target |-> "ACCEPT"]>>}

\* Task { id: Uuid::new_v4(), task_type, payload, created_at: Utc::now() }
NewTask(task_type, payload) ==
    [id |-> Cardinality(db_tasks) + 1, task_type |-> task_type, payload |-> payload,
     created_at |-> now]

CanEnqueue(b) ==
    /\ Cardinality(db_tasks) < b.tasks
    /\ b.serial => Quiescent

CreateRelayTask(client_id, relay_config, b) ==
    /\ CanEnqueue(b)
    /\ db_tasks' = DbCreateTask(client_id, NewTask("StartRelay", relay_config))
    /\ UNCHANGED <<now, nextTick, clients, db_clients, tokens, calls, sweep, delivered>>

CreateStopRelayTask(client_id, relay_config, b) ==
    /\ CanEnqueue(b)
    /\ db_tasks' = DbCreateTask(client_id, NewTask("StopRelay", relay_config))
    /\ UNCHANGED <<now, nextTick, clients, db_clients, tokens, calls, sweep, delivered>>

CreateIptablesTask(client_id, rules, b) ==
    /\ CanEnqueue(b)
    /\ db_tasks' = DbCreateTask(client_id, NewTask("UpdateIptables", rules))
    /\ UNCHANGED <<now, nextTick, clients, db_clients, tokens, calls, sweep, delivered>>

\* --------------------------------------------------------- cleanup task
\* TimedOut with a timeout one cleanup interval too long
TimedOutLate(at) ==
    {id \in DOMAIN clients :
        at - clients[id].last_heartbeat > HeartbeatTimeout + CleanupInterval}

\* the first loop of cleanup_inactive_clients: the ids whose heartbeat is
\* older than the timeout at the pass's now
TimedOut(at) ==
    {id \in DOMAIN clients : at - clients[id].last_heartbeat > HeartbeatTimeout}

\* ticker.tick().await, then now = Utc::now() and the scan of the map
CleanupScan(b) ==
    /\ sweep.pc = "tick"
    /\ now >= nextTick
    /\ b.serial => Quiescent
    /\ \A id \in ClientIds : ~LockHeld(id)
    /\ nextTick' = nextTick + CleanupInterval
    /\ sweep' = [pc |-> IF TimedOut(now) = {} THEN "tick" ELSE "remove",
                 now |-> now, to_remove |-> TimedOut(now), id |-> ""]
    /\ UNCHANGED <<now, clients, db_clients, db_tasks, tokens, calls, delivered>>

\* a second loop that keeps the record in the map and marks it Offline there
CleanupRemoveMarksOffline(id) ==
    /\ sweep.pc = "remove"
    /\ id \in sweep.to_remove
    /\ ~LockHeld(id)
    /\ IF id \in DOMAIN clients
       THEN /\ clients' = [clients EXCEPT ![id].status = "Offline"]
            /\ sweep' = [sweep EXCEPT !.pc = "update_status", !.id = id,
                                      !.to_remove = @ \ {id}]
       ELSE /\ clients' = clients
            /\ sweep' = [sweep EXCEPT !.to_remove = @ \ {id},
                                      !.pc = IF sweep.to_remove = {id} THEN "tick"
                                                                       ELSE "remove"]
    /\ UNCHANGED <<now, nextTick, db_clients, db_tasks, tokens, calls, delivered>>

\* the second loop, one id: self.clients.remove(&client_id); to_remove is
\* taken in the map's iteration order, which is any order
CleanupRemove(id) ==
    /\ sweep.pc = "remove"
    /\ id \in sweep.to_remove
    /\ ~LockHeld(id)
    /\ IF id \in DOMAIN clients
       THEN /\ clients' = Drop(clients, id)
            /\ sweep' = [sweep EXCEPT !.pc = "update_status", !.id = id,
                                      !.to_remove = @ \ {id}]
       ELSE /\ clients' = clients
            /\ sweep' = [sweep EXCEPT !.to_remove = @ \ {id},
                                      !.pc = IF sweep.to_remove = {id} THEN "tick"
                                                                       ELSE "remove"]
    /\ UNCHANGED <<now, nextTick, db_clients, db_tasks, tokens, calls, delivered>>

\* CleanupUpdateStatus that ends the pass when the store fails (a `?` for the `let _ =`)
CleanupUpdateStatusOrReturn(b) ==
    /\ sweep.pc = "update_status"
    /\ \E ok \in StoreOutcomes(b) :
        IF ok
        THEN /\ db_clients' = DbUpdateStatus(sweep.id, "offline")
             /\ sweep' = [sweep EXCEPT !.id = "",
                                       !.pc = IF sweep.to_remove = {} THEN "tick" ELSE "remove"]
        ELSE /\ db_clients' = db_clients
             /\ sweep' = [sweep EXCEPT !.id = "", !.pc = "tick", !.to_remove = {}]
    /\ UNCHANGED <<now, nextTick, clients, db_tasks, tokens, calls, delivered>>

\* let _ = self.db.update_status(&client_id, "offline").await
CleanupUpdateStatus(b) ==
    /\ sweep.pc = "update_status"
    /\ \E ok \in StoreOutcomes(b) :
        db_clients' = IF ok THEN DbUpdateStatus(sweep.id, "offline") ELSE db_clients
    /\ sweep' = [sweep EXCEPT !.id = "",
                              !.pc = IF sweep.to_remove = {} THEN "tick" ELSE "remove"]
    /\ UNCHANGED <<now, nextTick, clients, db_tasks, tokens, calls, delivered>>

\* ----------------------------------------------------------------- clock
\* Time passes while no handler and no cleanup pass is running, and never
\* beyond a due tick of the cleanup ticker.
Tick(b) ==
    /\ Quiescent
    /\ now < b.time
    /\ now < nextTick
    /\ now' = Min(now + Granule, nextTick)
    /\ UNCHANGED <<nextTick, clients, db_clients, db_tasks, tokens, calls, sweep, delivered>>

\* ================================================= the agent (sentinel-client)
\* ------------------------------------------------ RegistrationManager, main
\* config.client.id of the agent process
AgentId == "c1"

\* RegistrationManager::new and the two loops main spawns: start() is about to
\* register, the task loop waits for its tick; token 0 is None; batch is the
\* `tasks` the task loop iterates over, mark the number of process_task calls
\* made before the one in hand.
\* history: logged, the ids of the tasks send_heartbeat gave to handle_task,
\* which logs the task and returns
IdleAgent ==
    [reg_pc |-> "register", reg_slot |-> 0, poll_pc |-> "tick", poll_slot |-> 0,
     token |-> 0, owes_register |-> FALSE,
     batch |-> <<>>, mark |-> 0, logged |-> {}]

\* register(): the client.register request reaches the coordinator.
\* history: owes_register is TRUE from a rejected heartbeat of this agent
\* until its next client.register request
AgentRegisterCall(c, b) ==
    /\ agent.reg_pc = "register"
    /\ RegisterCall(c, AgentId, b)
    /\ agent' = [agent EXCEPT !.reg_pc = "register_wait", !.reg_slot = c,
                              !.owes_register = FALSE]
    /\ UNCHANGED <<relayVars, pumpVars, toolVars, proxyVars>>

\* register(): the response.  Ok stores the token and start() goes on to its
\* loop; Err leaves start() through the `?`, and main's select! ends the process
AgentRegisterReturn ==
    /\ agent.reg_pc = "register_wait"
    /\ Reply(agent.reg_slot)
    /\ LET r == calls[agent.reg_slot].result
       IN  agent' = IF r.kind = "ok"
                    THEN [agent EXCEPT !.reg_pc = "tick", !.reg_slot = 0, !.token = r.token]
                    ELSE [agent EXCEPT !.reg_pc = "stopped", !.reg_slot = 0]
    /\ UNCHANGED <<relayVars, pumpVars, toolVars, proxyVars>>

\* register(): the request fails in transport (the coordinator is unreachable)
AgentRegisterUnreachable ==
    /\ agent.reg_pc = "register"
    /\ agent' = [agent EXCEPT !.reg_pc = "stopped"]
    /\ UNCHANGED <<serverVars, relayVars, pumpVars, toolVars, proxyVars>>

\* start(): ticker.tick().await, then send_heartbeat() up to its request;
\* metrics is SystemMonitor::collect_metrics().await.ok()
AgentHeartbeatCall(c, metrics, b) ==
    /\ agent.reg_pc = "tick"
    /\ agent.token # 0
    /\ HeartbeatCall(c, AgentId, agent.token, metrics, b)
    /\ agent' = [agent EXCEPT !.reg_pc = "heartbeat_wait", !.reg_slot = c]
    /\ UNCHANGED <<relayVars, pumpVars, toolVars, proxyVars>>

\* send_heartbeat(): the response.  Ok: handle_task logs each task and
\* returns Ok(()); Err: start() logs "Heartbeat failed" and calls register()
AgentHeartbeatReturn ==
    /\ agent.reg_pc = "heartbeat_wait"
    /\ Reply(agent.reg_slot)
    /\ LET r == calls[agent.reg_slot].result
       IN  agent' = IF r.kind = "ok"
                    THEN [agent EXCEPT !.reg_pc = "tick", !.reg_slot = 0,
                                       !.logged = @ \cup TaskIds(r)]
                    ELSE [agent EXCEPT !.reg_pc = "register", !.reg_slot = 0,
                                       !.owes_register = TRUE]
    /\ UNCHANGED <<relayVars, pumpVars, toolVars, proxyVars>>

\* send_heartbeat(): the request fails in transport; start() calls register()
AgentHeartbeatUnreachable ==
    /\ agent.reg_pc = "tick"
    /\ agent.token # 0
    /\ agent' = [agent EXCEPT !.reg_pc = "register"]
    /\ UNCHANGED <<serverVars, relayVars, pumpVars, toolVars, proxyVars>>

\* main's task loop: interval.tick().await, then get_pending_tasks() up to its
\* request, a client.heartbeat with metrics: None.  (Without a token
\* get_pending_tasks returns Ok(vec![]) and a request that fails in transport
\* is dropped by the `if let Ok`: neither changes the state.)
AgentPollCall(c, b) ==
    /\ agent.poll_pc = "tick"
    /\ agent.reg_pc # "stopped"
    /\ agent.token # 0
    /\ HeartbeatCall(c, AgentId, agent.token, FALSE, b)
    /\ agent' = [agent EXCEPT !.poll_pc = "poll_wait", !.poll_slot = c]
    /\ UNCHANGED <<relayVars, pumpVars, toolVars, proxyVars>>

\* get_pending_tasks(): the response.  Ok(tasks) with tasks starts the `for
\* task in tasks`; an empty Ok and an Err (dropped by the `if let Ok`) take
\* the task loop to its next tick
AgentPollReturn ==
    /\ agent.poll_pc = "poll_wait"
    /\ Reply(agent.poll_slot)
    /\ LET r == calls[agent.poll_slot].result
       IN  agent' = [agent EXCEPT !.poll_pc = IF r.tasks = <<>> THEN "tick" ELSE "dispatch",
                                  !.batch = r.tasks,
                                  !.poll_slot = 0,
                                  !.owes_register = @ \/ r.kind = "error"]
    /\ UNCHANGED <<relayVars, pumpVars, toolVars, proxyVars>>

\* the task loop is done with the task in hand
NextInBatch ==
    [agent EXCEPT !.batch = Tail(@),
                  !.poll_pc = IF Tail(agent.batch) = <<>> THEN "tick" ELSE "dispatch"]

\* the match on task.task_type for the next task of the batch: StartRelay and
\* StopRelay go to the relay manager, UpdateIptables to the iptables manager
\* (the payloads the coordinator builds always parse), ConfigureProxy and
\* UpdateConfig are logged
AgentDispatchTask ==
    /\ agent.poll_pc = "dispatch"
    /\ LET task == Head(agent.batch)
       IN  CASE task.task_type = "StartRelay" ->
                  /\ relay_calls[1].pc = "idle"
                  /\ agent' = [agent EXCEPT !.poll_pc = "start_relay"]
             [] task.task_type = "StopRelay" ->
                  /\ relay_calls[1].pc = "idle"
                  /\ agent' = [agent EXCEPT !.poll_pc = "stop_relay"]
             [] task.task_type = "UpdateIptables" ->
                  /\ iptables.pc = "idle"
                  /\ agent' = [agent EXCEPT !.poll_pc = "process_task",
                                            !.mark = iptables.tasks]
             [] OTHER -> agent' = NextInBatch
    /\ UNCHANGED <<serverVars, relayVars, pumpVars, toolVars, proxyVars>>

\* the registration loop
RegistrationLoop(b) ==
    \/ \E c \in Calls : AgentRegisterCall(c, b)
    \/ AgentRegisterReturn
    \/ AgentRegisterUnreachable
    \/ \E c \in Calls, metrics \in b.metrics : AgentHeartbeatCall(c, metrics, b)
    \/ AgentHeartbeatReturn
    \/ AgentHeartbeatUnreachable

\* the task loop
TaskLoop(b) ==
    \/ \E c \in Calls : AgentPollCall(c, b)
    \/ AgentPollReturn

\* ------------------------------------------------------------ RelayManager
\* the relay descriptors the coordinator sends to this agent: three with a
\* bind address as entry_point (loopback, wildcard, an address of one of the
\* host's interfaces), one without an entry_point
AgentRelayConfigs ==
    {[entry_point |-> "127.0.0.1:9001", exit_point |-> "127.0.0.1:9002",
      transport_type |-> "Direct"],
     [entry_point |-> "0.0.0.0:9003", exit_point |-> "10.0.0.2:443",
      transport_type |-> "Encrypted"],
     [entry_point |-> "192.168.1.5:9004", exit_point |-> "10.0.0.4:8080",
      transport_type |-> "WebSocket"],
     [entry_point |-> "", exit_point |-> "10.0.0.3:80", transport_type |-> "Direct"]}

\* str::starts_with
StartsWith(s, prefix) ==
    Len(s) >= Len(prefix) /\ SubSeq(s, 1, Len(prefix)) = prefix

\* RelayConnection::new: the entry points that get a TcpListener, those with
\* entry_point.starts_with("0.0.0.0:") || entry_point.starts_with("127.0.0.1:")
BindAddresses ==
    {c.entry_point : c \in {d \in AgentRelayConfigs :
        StartsWith(d.entry_point, "0.0.0.0:") \/ StartsWith(d.entry_point, "127.0.0.1:")}}

\* the descriptors whose relay accepts inbound connections
ListeningConfigs == {c \in AgentRelayConfigs : c.entry_point \in BindAddresses}

\* format!("{}:{}", entry_point, exit_point)
RelayId(entry_point, exit_point) == entry_point \o ":" \o exit_point

RelayCalls == 1..MaxRelayCalls
RelayTasks == 1..MaxRelayTasks

NoConnection == [config |-> [entry_point |-> "", exit_point |-> "", transport_type |-> ""],
                 listener |-> FALSE]

IdleRelayCall ==
    [op |-> "none", relay_id |-> "", pc |-> "idle", result |-> "", connection |-> NoConnection,
     was_active |-> FALSE]

NoRelayTask == [id |-> "", pc |-> "none", accepted |-> 0, conns |-> <<>>]

\* the addresses a live TcpListener of this process is bound to: the listeners
\* of the connections in the map and of those built but not yet inserted
BoundAddresses ==
    {active_relays[id].config.entry_point :
        id \in {i \in DOMAIN active_relays : active_relays[i].listener}}
    \cup {relay_calls[k].connection.config.entry_point :
            k \in {j \in RelayCalls : relay_calls[j].connection.listener}}

\* RwLock::write().await / read().await: the caller joins the lock's FIFO
Waiting(who) == [relay_lock EXCEPT !.queue = Append(@, who)]

\* a waiting writer gets the lock at the head of the FIFO once no read guard is out
CanWrite(who) ==
    /\ relay_lock.queue # <<>>
    /\ Head(relay_lock.queue) = who
    /\ relay_lock.readers = {}

\* a waiting reader gets the lock at the head of the FIFO (a write guard is
\* never held across an await)
CanRead(who) ==
    /\ relay_lock.queue # <<>>
    /\ Head(relay_lock.queue) = who

\* start_relay up to self.active_relays.write().await: RelayConnection::new
\* binds the listener; a bind error leaves start_relay through the `?`.
\* history: was_active, whether the pair was in the map when the call began
StartRelayCall(k, config) ==
    /\ relay_calls[k].pc = "idle"
    /\ \A j \in 1..(k - 1) : relay_calls[j].pc # "idle"
    /\ Cardinality({t \in RelayTasks : relay_tasks[t].pc # "none"})
         + Cardinality({j \in RelayCalls : relay_calls[j].op = "start"
                                           /\ relay_calls[j].pc = "write_wait"})
         < MaxRelayTasks
    /\ LET id == RelayId(config.entry_point, config.exit_point)
           call == [IdleRelayCall EXCEPT !.op = "start", !.relay_id = id,
                                         !.was_active = id \in DOMAIN active_relays]
           binds == config.entry_point \in BindAddresses
       IN  IF binds /\ config.entry_point \in BoundAddresses
           THEN /\ relay_calls' = [relay_calls EXCEPT ![k] =
                        [call EXCEPT !.pc = "done", !.result = "Err: address in use"]]
                /\ relay_lock' = relay_lock
           ELSE /\ relay_calls' = [relay_calls EXCEPT ![k] =
                        [call EXCEPT !.pc = "write_wait",
                                     !.connection = [config |-> config, listener |-> binds]]]
                /\ relay_lock' = Waiting(<<"call", k>>)
    /\ UNCHANGED <<active_relays, relay_tasks>>
    /\ UNCHANGED <<serverVars, agentVars, pumpVars, toolVars, proxyVars>>

\* start_relay from the write guard on: insert (a connection already stored
\* under the id is dropped), tokio::spawn of the background task, Ok(())
StartRelayInsert(k) ==
    /\ relay_calls[k].pc = "write_wait"
    /\ relay_calls[k].op = "start"
    /\ CanWrite(<<"call", k>>)
    /\ active_relays' = Put(active_relays, relay_calls[k].relay_id, relay_calls[k].connection)
    /\ relay_lock' = [relay_lock EXCEPT !.queue = Tail(@)]
    /\ LET t == CHOOSE u \in RelayTasks :
                    /\ relay_tasks[u].pc = "none"
                    /\ \A v \in 1..(u - 1) : relay_tasks[v].pc # "none"
       IN  relay_tasks' = [relay_tasks EXCEPT ![t] =
                [NoRelayTask EXCEPT !.id = relay_calls[k].relay_id, !.pc = "spawned"]]
    /\ relay_calls' = [relay_calls EXCEPT ![k].pc = "done", ![k].result = "Ok",
                                          ![k].connection = NoConnection]
    /\ UNCHANGED <<serverVars, agentVars, pumpVars, toolVars, proxyVars>>

\* stop_relay up to self.active_relays.write().await
StopRelayCall(k, config) ==
    /\ relay_calls[k].pc = "idle"
    /\ \A j \in 1..(k - 1) : relay_calls[j].pc # "idle"
    /\ LET id == RelayId(config.entry_point, config.exit_point)
       IN  relay_calls' = [relay_calls EXCEPT ![k] =
                [IdleRelayCall EXCEPT !.op = "stop", !.relay_id = id, !.pc = "write_wait",
                                      !.was_active = id \in DOMAIN active_relays]]
    /\ relay_lock' = Waiting(<<"call", k>>)
    /\ UNCHANGED <<active_relays, relay_tasks>>
    /\ UNCHANGED <<serverVars, agentVars, pumpVars, toolVars, proxyVars>>

\* stop_relay from the write guard on: remove (the connection and its listener
\* are dropped), Ok(())
StopRelayRemove(k) ==
    /\ relay_calls[k].pc = "write_wait"
    /\ relay_calls[k].op = "stop"
    /\ CanWrite(<<"call", k>>)
    /\ active_relays' = Drop(active_relays, relay_calls[k].relay_id)
    /\ relay_lock' = [relay_lock EXCEPT !.queue = Tail(@)]
    /\ relay_calls' = [relay_calls EXCEPT ![k].pc = "done", ![k].result = "Ok"]
    /\ UNCHANGED relay_tasks
    /\ UNCHANGED <<serverVars, agentVars, pumpVars, toolVars, proxyVars>>

\* the caller of start_relay / stop_relay has the result
RelayReturn(k) ==
    /\ relay_calls[k].pc = "done"
    /\ relay_calls' = [relay_calls EXCEPT ![k] = IdleRelayCall]
    /\ UNCHANGED <<active_relays, relay_lock, relay_tasks>>
    /\ UNCHANGED <<serverVars, agentVars, pumpVars, toolVars, proxyVars>>

\* the spawned task reaches relays.read().await
TaskRequestRead(t) ==
    /\ relay_tasks[t].pc = "spawned"
    /\ relay_tasks' = [relay_tasks EXCEPT ![t].pc = "read_wait"]
    /\ relay_lock' = Waiting(<<"task", t>>)
    /\ UNCHANGED <<active_relays, relay_calls>>
    /\ UNCHANGED <<serverVars, agentVars, pumpVars, toolVars, proxyVars>>

\* if let Some(relay) = relays.read().await.get(&id): with the entry present
\* the task enters relay.run() and the read guard, a temporary of the if let,
\* stays alive for as long as run() does; without it the guard is dropped
TaskRead(t) ==
    /\ relay_tasks[t].pc = "read_wait"
    /\ CanRead(<<"task", t>>)
    /\ IF relay_tasks[t].id \in DOMAIN active_relays
       THEN /\ relay_lock' = [relay_lock EXCEPT !.queue = Tail(@), !.readers = @ \cup {t}]
            /\ relay_tasks' = [relay_tasks EXCEPT ![t].pc = "run"]
       ELSE /\ relay_lock' = [relay_lock EXCEPT !.queue = Tail(@)]
            /\ relay_tasks' = [relay_tasks EXCEPT ![t].pc = "done"]
    /\ UNCHANGED <<active_relays, relay_calls>>
    /\ UNCHANGED <<serverVars, agentVars, pumpVars, toolVars, proxyVars>>

\* run(): listener.accept().await returns a connection and its handler is
\* spawned; without a listener run() waits on future::pending.
\* history: after_failure, whether a connection of this job had failed before
TaskAccept(t) ==
    /\ relay_tasks[t].pc = "run"
    /\ active_relays[relay_tasks[t].id].listener
    /\ relay_tasks[t].accepted < MaxAccepts
    /\ relay_tasks' = [relay_tasks EXCEPT
            ![t].accepted = @ + 1,
            ![t].conns = Append(@, [state |-> "connecting",
                                    after_failure |-> \E j \in DOMAIN @ : @[j].state = "failed"])]
    /\ UNCHANGED <<active_relays, relay_lock, relay_calls>>
    /\ UNCHANGED <<serverVars, agentVars, pumpVars, toolVars, proxyVars>>

\* the Err arm of `if let Err(e) = relay.run().await`: listener.accept().await
\* fails, run() returns the error through its `?`, the task logs it and
\* reaches relays.write().await with the read guard of the enclosing `if let`
\* still alive; once it has the write lock it removes the entry, and leaving
\* the `if let` drops both guards
TaskRunFailed(t) ==
    IF relay_tasks[t].pc = "run"
    THEN /\ active_relays[relay_tasks[t].id].listener
         /\ relay_tasks' = [relay_tasks EXCEPT ![t].pc = "write_wait"]
         /\ relay_lock' = Waiting(<<"task", t>>)
         /\ UNCHANGED <<active_relays, relay_calls>>
         /\ UNCHANGED <<serverVars, agentVars, pumpVars, toolVars, proxyVars>>
    ELSE /\ relay_tasks[t].pc = "write_wait"
         /\ CanWrite(<<"task", t>>)
         /\ active_relays' = Drop(active_relays, relay_tasks[t].id)
         /\ relay_lock' = [relay_lock EXCEPT !.queue = Tail(@), !.readers = @ \ {t}]
         /\ relay_tasks' = [relay_tasks EXCEPT ![t].pc = "done"]
         /\ UNCHANGED relay_calls
         /\ UNCHANGED <<serverVars, agentVars, pumpVars, toolVars, proxyVars>>

\* a connection handler whose failure to connect takes the job out of the map
ConnConnectStopsJob(t, i, ok) ==
    /\ i \in DOMAIN relay_tasks[t].conns
    /\ relay_tasks[t].conns[i].state = "connecting"
    /\ relay_tasks' = [relay_tasks EXCEPT
            ![t].conns[i].state = IF ok THEN "relaying" ELSE "failed"]
    /\ active_relays' = IF ok THEN active_relays ELSE Drop(active_relays, relay_tasks[t].id)
    /\ UNCHANGED <<relay_lock, relay_calls>>
    /\ UNCHANGED <<serverVars, agentVars, pumpVars, toolVars, proxyVars>>

\* the spawned handle_relay_connection of connection i of job t: the connect
\* to the exit point succeeds and relay_traffic starts, or it fails, the
\* handler returns the error and the spawned task logs it
ConnConnect(t, i, ok) ==
    /\ i \in DOMAIN relay_tasks[t].conns
    /\ relay_tasks[t].conns[i].state = "connecting"
    /\ relay_tasks' = [relay_tasks EXCEPT
            ![t].conns[i].state = IF ok THEN "relaying" ELSE "failed"]
    /\ UNCHANGED <<active_relays, relay_lock, relay_calls>>
    /\ UNCHANGED <<serverVars, agentVars, pumpVars, toolVars, proxyVars>>

\* relay_traffic of connection i of job t returns (a pump has finished) and
\* with it the handler
ConnEnd(t, i) ==
    /\ i \in DOMAIN relay_tasks[t].conns
    /\ relay_tasks[t].conns[i].state = "relaying"
    /\ relay_tasks' = [relay_tasks EXCEPT ![t].conns[i].state = "closed"]
    /\ UNCHANGED <<active_relays, relay_lock, relay_calls>>
    /\ UNCHANGED <<serverVars, agentVars, pumpVars, toolVars, proxyVars>>

\* every step of the connection handlers of job t
RelayConnStep(t) ==
    \/ \E i \in 1..MaxAccepts, ok \in BOOLEAN : ConnConnect(t, i, ok)
    \/ \E i \in 1..MaxAccepts : ConnEnd(t, i)

\* every step of call k
RelayCallStep(k) ==
    \/ \E config \in AgentRelayConfigs : StartRelayCall(k, config)
    \/ StartRelayInsert(k)
    \/ \E config \in AgentRelayConfigs : StopRelayCall(k, config)
    \/ StopRelayRemove(k)
    \/ RelayReturn(k)

\* every step of background task t
RelayTaskStep(t) ==
    TaskRequestRead(t) \/ TaskRead(t) \/ TaskAccept(t) \/ TaskRunFailed(t)

\* ------------------------------------------------- one relayed connection
\* the two copy tasks of relay_traffic, named as in the source
Directions == {"client_to_server", "server_to_client"}

\* the values a byte on the wire takes in the model
ByteValues == {"a", "b"}

\* total_bytes is the copy task's own counter of that name
NewWire == [sent |-> <<>>, closed |-> FALSE, read |-> 0, written |-> <<>>, total_bytes |-> 0]

\* the bytes of direction d that its source has sent and the pump has not read
Available(d) == SubSeq(wire[d].sent, wire[d].read + 1, Len(wire[d].sent))

\* the source peer of direction d sends a byte
PeerSend(d, byte) ==
    /\ relay_conn # "none"
    /\ ~wire[d].closed
    /\ Len(wire[d].sent) < MaxBytes
    /\ wire' = [wire EXCEPT ![d].sent = Append(@, byte)]
    /\ UNCHANGED <<pumps, relay_conn, conn_config>>
    /\ UNCHANGED <<serverVars, agentVars, relayVars, toolVars, proxyVars>>

\* the source peer of direction d closes its sending side
PeerClose(d) ==
    /\ relay_conn # "none"
    /\ ~wire[d].closed
    /\ wire' = [wire EXCEPT ![d].closed = TRUE]
    /\ UNCHANGED <<pumps, relay_conn, conn_config>>
    /\ UNCHANGED <<serverVars, agentVars, relayVars, toolVars, proxyVars>>

\* handle_relay_connection up to relay_traffic's select!: connect to the exit
\* point by connect_direct, connect_encrypted or connect_websocket, each of
\* which returns the TcpStream of TcpStream::connect as it is (an error leaves
\* through the `?`), split both streams, spawn both pumps
HandleRelayConnection(config, connected) ==
    /\ relay_conn = "none"
    /\ conn_config' = config
    /\ IF connected
       THEN /\ relay_conn' = "select"
            /\ pumps' = [d \in Directions |-> [pc |-> "read", buf |-> <<>>]]
       ELSE /\ relay_conn' = "failed"
            /\ pumps' = pumps
    /\ UNCHANGED wire
    /\ UNCHANGED <<serverVars, agentVars, relayVars, toolVars, proxyVars>>

\* a pump whose read starts over at the first byte the source sent
PumpReadFromStart(d, n, ok) ==
    /\ pumps[d].pc = "read"
    /\ ok
    /\ wire[d].sent # <<>>
    /\ n \in 1..Min(Len(wire[d].sent), BufSize)
    /\ pumps' = [pumps EXCEPT ![d].pc = "write", ![d].buf = SubSeq(wire[d].sent, 1, n)]
    /\ wire' = [wire EXCEPT ![d].read = n]
    /\ UNCHANGED <<relay_conn, conn_config>>
    /\ UNCHANGED <<serverVars, agentVars, relayVars, toolVars, proxyVars>>

\* a pump's read(&mut buf).await: Ok(n) with 1 <= n <= buf.len() bytes of what
\* is available, Ok(0) at end of stream, or Err; the last two break the loop
PumpRead(d, n, ok) ==
    /\ pumps[d].pc = "read"
    /\ IF ~ok
       THEN /\ n = 0
            /\ pumps' = [pumps EXCEPT ![d].pc = "finished"]
            /\ wire' = wire
       ELSE IF Available(d) # <<>>
       THEN /\ n \in 1..Min(Len(Available(d)), BufSize)
            /\ pumps' = [pumps EXCEPT ![d].pc = "write", ![d].buf = SubSeq(Available(d), 1, n)]
            /\ wire' = [wire EXCEPT ![d].read = @ + n]
       ELSE /\ n = 0
            /\ wire[d].closed
            /\ pumps' = [pumps EXCEPT ![d].pc = "finished"]
            /\ wire' = wire
    /\ UNCHANGED <<relay_conn, conn_config>>
    /\ UNCHANGED <<serverVars, agentVars, relayVars, toolVars, proxyVars>>

\* a pump's write_all(&buf[..n]).await: Ok with all of the chunk written, or
\* Err after some of it, which breaks the loop
PumpWrite(d, ok) ==
    /\ pumps[d].pc = "write"
    /\ IF ok
       THEN /\ wire' = [wire EXCEPT ![d].written = @ \o pumps[d].buf,
                                    ![d].total_bytes = @ + Len(pumps[d].buf)]
            /\ pumps' = [pumps EXCEPT ![d].pc = "read", ![d].buf = <<>>]
       ELSE /\ \E m \in 0..(Len(pumps[d].buf) - 1) :
                   wire' = [wire EXCEPT ![d].written = @ \o SubSeq(pumps[d].buf, 1, m)]
            /\ pumps' = [pumps EXCEPT ![d].pc = "finished", ![d].buf = <<>>]
    /\ UNCHANGED <<relay_conn, conn_config>>
    /\ UNCHANGED <<serverVars, agentVars, relayVars, toolVars, proxyVars>>

\* relay_traffic's tokio::select! over the two JoinHandles: it completes with
\* the first pump that has finished, the other JoinHandle is dropped, which
\* detaches that task, and handle_relay_connection returns
RelayTrafficSelect ==
    /\ relay_conn = "select"
    /\ \E d \in Directions : pumps[d].pc = "finished"
    /\ relay_conn' = "returned"
    /\ UNCHANGED <<wire, pumps, conn_config>>
    /\ UNCHANGED <<serverVars, agentVars, relayVars, toolVars, proxyVars>>

\* ------------------------------------------------------------------ ciphers
\* EncryptionType's symmetric ciphers
Ciphers == {"Aes256Gcm", "ChaCha20Poly1305"}

\* key material: two keys of 32 bytes and one of 16
Keys == {[id |-> "k1", len |-> KeyLen], [id |-> "k2", len |-> KeyLen],
         [id |-> "k3", len |-> KeyLen \div 2]}

\* the values OsRng.fill_bytes / generate_nonce can give a nonce
Nonces == 1..MaxNonces

\* every sequence over S of length 0..n
SeqsUpTo(S, n) == UNION {[1..k -> S] : k \in 0..n}

\* the plaintexts handed to a cipher
Plaintexts == SeqsUpTo(ByteValues, MaxPlain)

\* the 12 bytes of nonce value nonce
NonceBytes(nonce) == [j \in 1..NonceLen |-> <<"nonce", nonce, j>>]

\* Aead::encrypt of the aes_gcm and chacha20poly1305 crates: one ciphertext
\* byte per plaintext byte, fixed by cipher, key, nonce and position, then the
\* tag over all of it
AeadEncrypt(cipher, key, nonce, plaintext) ==
    [i \in 1..Len(plaintext) |-> <<"ct", cipher, key, nonce, i, plaintext[i]>>]
    \o [j \in 1..TagLen |-> <<"tag", cipher, key, nonce, plaintext, j>>]

\* Aead::decrypt: the plaintext whose encryption under this cipher, key and
\* nonce the ciphertext is, and an error for every other input
AeadDecrypt(cipher, key, nonce_bytes, ciphertext) ==
    LET n == Len(ciphertext) - TagLen
        opens == {nonce \in Nonces :
                    /\ NonceBytes(nonce) = nonce_bytes
                    /\ n >= 0
                    /\ \A i \in 1..n :
                          /\ Len(ciphertext[i]) = 6
                          /\ SubSeq(ciphertext[i], 1, 5) = <<"ct", cipher, key, nonce, i>>
                    /\ ciphertext =
                          AeadEncrypt(cipher, key, nonce, [i \in 1..n |-> ciphertext[i][6]])}
    IN  IF opens = {}
        THEN [ok |-> FALSE, value |-> <<>>]
        ELSE [ok |-> TRUE, value |-> [i \in 1..n |-> ciphertext[i][6]]]

\* a split one byte after position mid
SplitAtLate(data, mid) ==
    <<SubSeq(data, 1, Min(mid + 1, Len(data))), SubSeq(data, mid + 2, Len(data))>>

\* the bytes before and from position mid (slice::split_at)
SplitAt(data, mid) == <<SubSeq(data, 1, mid), SubSeq(data, mid + 1, Len(data))>>

\* SymmetricEncryptedStream::encrypt_data and Crypto::encrypt: the nonce, then
\* the ciphertext
encrypt_data(cipher, key, nonce, plaintext) ==
    NonceBytes(nonce) \o AeadEncrypt(cipher, key, nonce, plaintext)

\* SymmetricEncryptedStream::decrypt_data and Crypto::decrypt
decrypt_data(cipher, key, encrypted_data) ==
    IF Len(encrypted_data) < NonceLen
    THEN [ok |-> FALSE, value |-> <<>>]
    ELSE LET parts == SplitAt(encrypted_data, NonceLen)
         IN  AeadDecrypt(cipher, key, parts[1], parts[2])

\* new_aes256 / new_chacha20: a key of another length than 32 is refused;
\* Crypto::new takes any key through derive_key
CipherAccepts(api, key) == api = "Crypto" \/ key.len = KeyLen

\* the two owners of a cipher: Crypto (sentinel-common, AES-256-GCM only) and
\* SymmetricEncryptedStream (sentinel-client)
CryptoApis == {"Crypto", "SymmetricEncryptedStream"}

IdleCrypto ==
    [pc |-> "idle", api |-> "", cipher |-> "", key |-> [id |-> "", len |-> 0], nonce |-> 0,
     plaintext |-> <<>>, frame |-> <<>>, open_key |-> [id |-> "", len |-> 0],
     input |-> <<>>, result |-> [ok |-> FALSE, value |-> <<>>]]

\* a cipher is built over key and encrypts plaintext with a fresh nonce
CryptoEncrypt(api, cipher, key, nonce, plaintext) ==
    /\ crypto.pc = "idle"
    /\ api = "Crypto" => cipher = "Aes256Gcm"
    /\ CipherAccepts(api, key)
    /\ crypto' = [IdleCrypto EXCEPT !.pc = "sealed", !.api = api, !.cipher = cipher,
                                    !.key = key, !.nonce = nonce, !.plaintext = plaintext,
                                    !.frame = encrypt_data(cipher, key.id, nonce, plaintext)]
    /\ UNCHANGED <<stream, limiter, iptables>>
    /\ UNCHANGED <<serverVars, agentVars, relayVars, pumpVars, proxyVars>>

\* a cipher over key decrypts the first n bytes of the frame
CryptoDecrypt(key, n) ==
    /\ crypto.pc = "sealed"
    /\ CipherAccepts(crypto.api, key)
    /\ n \in 0..Len(crypto.frame)
    /\ LET input == SubSeq(crypto.frame, 1, n)
       IN  crypto' = [crypto EXCEPT !.pc = "opened", !.open_key = key, !.input = input,
                                    !.result = decrypt_data(crypto.cipher, key.id, input)]
    /\ UNCHANGED <<stream, limiter, iptables>>
    /\ UNCHANGED <<serverVars, agentVars, relayVars, pumpVars, proxyVars>>

\* the caller is done with the result
CryptoDone ==
    /\ crypto.pc = "opened"
    /\ crypto' = IdleCrypto
    /\ UNCHANGED <<stream, limiter, iptables>>
    /\ UNCHANGED <<serverVars, agentVars, relayVars, pumpVars, proxyVars>>

\* ------------------------------------------------ SymmetricEncryptedStream
\* the writes a caller makes: write_all never calls poll_write with no bytes
StreamPlaintexts == Plaintexts \ {<<>>}

\* history fields: written, the plaintexts of the writes that reported
\* success; frames, the frame sealed for each; received, what each read that
\* reported success put into the caller's buffer
NoStream ==
    [pc |-> "none", cipher |-> "", key |-> "", wire |-> <<>>, written |-> <<>>,
     frames |-> <<>>, received |-> <<>>, read_errors |-> 0, write_errors |-> 0]

\* the length of the frame of n plaintext bytes
FrameLen(n) == NonceLen + n + TagLen

\* the byte counts at which the connection is made to cut a write or a read:
\* one byte, around the end of the nonce, one byte short of a frame, and
\* every whole number of frames
StreamCuts ==
    {1, NonceLen - 1, NonceLen + 1}
    \cup {FrameLen(n) - 1 : n \in 1..MaxPlain}
    \cup {w * FrameLen(0) + n : w \in 1..MaxWrites, n \in 1..(MaxWrites * MaxPlain)}

\* s \o t \o ... for a sequence of sequences
RECURSIVE Concat(_)
Concat(seqs) == IF seqs = <<>> THEN <<>> ELSE Head(seqs) \o Concat(Tail(seqs))

\* the first n elements (&x[..n])
Take(seq, n) == SubSeq(seq, 1, n)

\* EncryptionManager::wrap_stream for Aes256Gcm / ChaCha20Poly1305: the stream
\* over one connection; a key that is not 32 bytes is refused
WrapStream(cipher, key) ==
    /\ stream.pc = "none"
    /\ stream' = IF key.len = KeyLen
                 THEN [NoStream EXCEPT !.pc = "open", !.cipher = cipher, !.key = key.id]
                 ELSE [NoStream EXCEPT !.pc = "refused"]
    /\ UNCHANGED <<crypto, limiter, iptables>>
    /\ UNCHANGED <<serverVars, agentVars, relayVars, pumpVars, proxyVars>>

\* poll_write(buf): the frame of buf is sealed under a fresh nonce and handed
\* to the connection's poll_write, which takes the first k bytes of it (or
\* fails); Ready(Ok(_)) is answered with Ok(buf.len()).  An error of the
\* connection's poll_write is the write's error and changes nothing of the
\* stream: the bytes in flight stay readable and later writes go out.
\* history field: write_errors, the writes that returned the error
StreamPollWrite(plaintext, nonce, k, ok) ==
    /\ stream.pc = "open"
    /\ Len(stream.written) < MaxWrites
    /\ LET encrypted == encrypt_data(stream.cipher, stream.key, nonce, plaintext)
       IN  IF ok
           THEN /\ k \in 1..Len(encrypted)
                /\ stream' = [stream EXCEPT !.wire = @ \o Take(encrypted, k),
                                            !.written = Append(@, plaintext),
                                            !.frames = Append(@, encrypted)]
           ELSE /\ k = 0
                /\ stream.write_errors < MaxWriteErrors
                /\ stream' = [stream EXCEPT !.write_errors = @ + 1]
    /\ UNCHANGED <<crypto, limiter, iptables>>
    /\ UNCHANGED <<serverVars, agentVars, relayVars, pumpVars, proxyVars>>

\* poll_read(buf) with remaining bytes free in buf: the connection's poll_read
\* fills m bytes of the 8192-byte temp_buf, decrypt_data takes them as one
\* frame, and the first min(decrypted.len(), buf.remaining()) bytes of the
\* plaintext go to the caller.  A decrypt error is the read's error
\* (InvalidData): the m bytes are gone from the connection and the stream,
\* which keeps no state of its own, reads on from the byte after them.
\* history field: read_errors, the reads that returned the error
StreamPollRead(m, remaining) ==
    /\ stream.pc = "open"
    /\ m \in 1..Min(Len(stream.wire), BufSize)
    /\ LET filled == Take(stream.wire, m)
           decrypted == decrypt_data(stream.cipher, stream.key, filled)
           to_copy == Min(Len(decrypted.value), remaining)
       IN  IF decrypted.ok
           THEN stream' = [stream EXCEPT
                    !.wire = SubSeq(@, m + 1, Len(@)),
                    !.received = Append(@, Take(decrypted.value, to_copy))]
           ELSE /\ stream.read_errors < MaxReadErrors
                /\ stream' = [stream EXCEPT
                        !.wire = SubSeq(@, m + 1, Len(@)),
                        !.read_errors = @ + 1]
    /\ UNCHANGED <<crypto, limiter, iptables>>
    /\ UNCHANGED <<serverVars, agentVars, relayVars, pumpVars, proxyVars>>

\* -------------------------------------------------------------- RateLimiter
\* the byte counts callers ask for: around the 1 KiB steps
LimiterRequests == {1, KiB - 1, KiB, KiB + 1, 2 * KiB, 2 * KiB + 1}

\* the time unit of the limiter is the quota's replenish interval, 1 s / rate:
\* rate ticks are one second.
\* history fields: elapsed, the ticks since new; admitted, the bytes of the
\* wait_for_capacity calls that have returned; try, the last try_consume with
\* the cells before and after it
NoLimiter ==
    [pc |-> "none", burst |-> 0, cells |-> 0, nested |-> FALSE, elapsed |-> 0, admitted |-> 0,
     bytes |-> 0, permits |-> 0, left |-> 0,
     try |-> [bytes |-> 0, permits |-> 0, result |-> FALSE, before |-> 0, after |-> 0]]

Max(a, b) == IF a >= b THEN a ELSE b

\* (bytes / 1024).max(1)
Permits(bytes) == Max(bytes \div KiB, 1)

\* RateLimiter::new: Quota::per_second(bytes_per_second.max(1)), a bucket of
\* that many cells, full at the start, one cell back per replenish interval.
\* nested: whether the governor of the build has check_n return
\* Result<Result<(), NotUntil>, InsufficientCapacity> (0.6 and later) or
\* Result<(), NegativeMultiDecision> (before)
LimiterNew(bytes_per_second, nested) ==
    /\ limiter.pc = "none"
    /\ limiter' = [NoLimiter EXCEPT !.pc = "idle", !.burst = Max(bytes_per_second, 1),
                                    !.cells = Max(bytes_per_second, 1), !.nested = nested]
    /\ UNCHANGED <<crypto, stream, iptables>>
    /\ UNCHANGED <<serverVars, agentVars, relayVars, pumpVars, proxyVars>>

\* one replenish interval passes
LimiterTick ==
    /\ limiter.pc # "none"
    /\ limiter.elapsed < MaxLimiterTicks
    /\ limiter' = [limiter EXCEPT !.elapsed = @ + 1, !.cells = Min(@ + 1, limiter.burst)]
    /\ UNCHANGED <<crypto, stream, iptables>>
    /\ UNCHANGED <<serverVars, agentVars, relayVars, pumpVars, proxyVars>>

\* wait_for_capacity(bytes) up to its loop
WaitForCapacity(bytes) ==
    /\ limiter.pc = "idle"
    /\ limiter' = [limiter EXCEPT !.pc = "waiting", !.bytes = bytes,
                                  !.permits = Permits(bytes), !.left = Permits(bytes)]
    /\ UNCHANGED <<crypto, stream, iptables>>
    /\ UNCHANGED <<serverVars, agentVars, relayVars, pumpVars, proxyVars>>

\* one self.limiter.until_ready().await of the loop: it takes a cell once one
\* is there; after the last one wait_for_capacity returns
UntilReady ==
    /\ limiter.pc = "waiting"
    /\ limiter.cells >= 1
    /\ limiter' = [limiter EXCEPT
            !.cells = @ - 1,
            !.left = @ - 1,
            !.pc = IF limiter.left = 1 THEN "idle" ELSE "waiting",
            !.admitted = IF limiter.left = 1 THEN @ + limiter.bytes ELSE @]
    /\ UNCHANGED <<crypto, stream, iptables>>
    /\ UNCHANGED <<serverVars, agentVars, relayVars, pumpVars, proxyVars>>

\* governor's check_n(n): more than the burst is InsufficientCapacity; n cells
\* are taken when they are there; otherwise nothing is taken and the answer
\* is a NotUntil
CheckN(n) ==
    IF n > limiter.burst THEN [taken |-> 0, answer |-> "InsufficientCapacity"]
    ELSE IF n <= limiter.cells THEN [taken |-> n, answer |-> "Ok"]
    ELSE [taken |-> 0, answer |-> "NotUntil"]

\* Result::is_ok of what check_n returned: with the nested result a NotUntil
\* sits inside an outer Ok
CheckNIsOk(answer) ==
    \/ answer = "Ok"
    \/ limiter.nested /\ answer = "NotUntil"

\* try_consume(bytes): self.limiter.check_n(permits).is_ok()
TryConsume(bytes) ==
    /\ limiter.pc # "none"
    /\ LET permits == Permits(bytes)
           checked == CheckN(permits)
       IN  limiter' = [limiter EXCEPT
               !.cells = @ - checked.taken,
               !.try = [bytes |-> bytes, permits |-> permits,
                        result |-> CheckNIsOk(checked.answer),
                        before |-> limiter.cells, after |-> limiter.cells - checked.taken]]
    /\ UNCHANGED <<crypto, stream, iptables>>
    /\ UNCHANGED <<serverVars, agentVars, relayVars, pumpVars, proxyVars>>

\* ---------------------------------------------------------- IptablesManager
\* the firewall rules the coordinator sends (the Option fields are None)
IptablesRules ==
    {[action |-> "Insert", chain |-> "INPUT", target |-> "ACCEPT"],
     [action |-> "Delete", chain |-> "FORWARD", target |-> "DROP"]}

\* format!("{:?}", rule)
RuleDebug(rule) ==
    "IptablesRule { action: " \o rule.action \o ", chain: \"" \o rule.chain
    \o "\", protocol: None, source: None, destination: None, dport: None, sport: None, target: \""
    \o rule.target \o "\" }"

\* what the iptables commands of one apply_rule do: all succeed; the
\* permission probe (iptables -L -n) exits with a failure; the probe cannot
\* be spawned; the rule's own command exits with a failure
RuleOutcomes == {"ok", "no_permission", "spawn_error", "command_failed"}

\* the payloads of an UpdateIptables task: a JSON array of rules, one rule
\* object, or something else
IptablesPayloads ==
    {[kind |-> "array", rules |-> rules] : rules \in SeqsUpTo(IptablesRules, MaxRules)}
    \cup {[kind |-> "object", rules |-> <<rule>>] : rule \in IptablesRules}
    \cup {[kind |-> "invalid", rules |-> <<>>]}

\* IptablesManager::new.
\* history fields: base, the length of applied_rules when the task began;
\* outcomes, what each apply_rule of the task met; tasks, the tasks processed
NewIptablesManager ==
    [pc |-> "idle", applied_rules |-> <<>>, kind |-> "", rules |-> <<>>, base |-> 0,
     outcomes |-> <<>>, result |-> "", tasks |-> 0]

\* get_applied_rules: a copy of applied_rules (no caller in the agent)
get_applied_rules(m) == m.applied_rules

\* clear_applied_rules_history: applied_rules.clear() (no caller in the agent)
clear_applied_rules_history(m) == [m EXCEPT !.applied_rules = <<>>]

\* process_task up to the first apply_rule: a task of another type and a
\* payload that is neither an array of rules nor a rule are errors; an empty
\* array is done at once
ProcessTask(task_type, payload) ==
    /\ iptables.pc = "idle"
    /\ iptables.tasks < MaxIptablesTasks
    /\ LET begun == [iptables EXCEPT !.kind = payload.kind, !.rules = payload.rules,
                                     !.base = Len(iptables.applied_rules),
                                     !.outcomes = <<>>, !.result = "", !.tasks = @ + 1]
       IN  iptables' =
              IF task_type # "UpdateIptables"
              THEN [begun EXCEPT !.pc = "done", !.kind = "", !.rules = <<>>,
                                 !.result = "Err: invalid task type"]
              ELSE IF payload.kind = "invalid"
              THEN [begun EXCEPT !.pc = "done", !.result = "Err: invalid payload"]
              ELSE IF payload.rules = <<>>
              THEN [begun EXCEPT !.pc = "done", !.result = "Ok"]
              ELSE [begun EXCEPT !.pc = "apply_rule"]
    /\ UNCHANGED <<crypto, stream, limiter>>
    /\ UNCHANGED <<serverVars, agentVars, relayVars, pumpVars, proxyVars>>

\* a loop over the rules that a failing rule ends
ApplyRuleOrReturn(outcome) ==
    /\ iptables.pc = "apply_rule"
    /\ LET i == Len(iptables.outcomes) + 1
           last == i = Len(iptables.rules) \/ outcome # "ok"
       IN  iptables' = [iptables EXCEPT
               !.outcomes = Append(@, outcome),
               !.applied_rules = IF outcome = "ok"
                                 THEN Append(@, RuleDebug(iptables.rules[i])) ELSE @,
               !.pc = IF last THEN "done" ELSE "apply_rule",
               !.result = IF ~last THEN "" ELSE IF outcome = "ok" THEN "Ok" ELSE "Err: rule"]
    /\ UNCHANGED <<crypto, stream, limiter>>
    /\ UNCHANGED <<serverVars, agentVars, relayVars, pumpVars, proxyVars>>

\* one apply_rule of process_task: the rule is pushed on applied_rules when
\* the permission probe and the rule's command succeed, and is an Err
\* otherwise.  In the loop over an array the Err is logged and the loop goes
\* on; for a single rule object it is process_task's result
ApplyRule(outcome) ==
    /\ iptables.pc = "apply_rule"
    /\ LET i == Len(iptables.outcomes) + 1
           last == i = Len(iptables.rules)
       IN  iptables' = [iptables EXCEPT
               !.outcomes = Append(@, outcome),
               !.applied_rules = IF outcome = "ok"
                                 THEN Append(@, RuleDebug(iptables.rules[i])) ELSE @,
               !.pc = IF last THEN "done" ELSE "apply_rule",
               !.result = IF ~last THEN ""
                          ELSE IF iptables.kind = "object" /\ outcome # "ok" THEN "Err: rule"
                          ELSE "Ok"]
    /\ UNCHANGED <<crypto, stream, limiter>>
    /\ UNCHANGED <<serverVars, agentVars, relayVars, pumpVars, proxyVars>>

\* the task loop has process_task's result (an Err is logged)
ProcessTaskReturn ==
    /\ iptables.pc = "done"
    /\ iptables' = [iptables EXCEPT !.pc = "idle"]
    /\ UNCHANGED <<crypto, stream, limiter>>
    /\ UNCHANGED <<serverVars, agentVars, relayVars, pumpVars, proxyVars>>

\* ------------------------------------- the task loop and its managers
\* relay_manager.start_relay(config).await begins
AgentStartRelay ==
    /\ agent.poll_pc = "start_relay"
    /\ StartRelayCall(1, Head(agent.batch).payload)

\* relay_manager.stop_relay(&config.entry_point, &config.exit_point).await begins
AgentStopRelay ==
    /\ agent.poll_pc = "stop_relay"
    /\ StopRelayCall(1, Head(agent.batch).payload)

\* start_relay / stop_relay has returned to the task loop (an Err is logged)
AgentRelayDone ==
    /\ agent.poll_pc \in {"start_relay", "stop_relay"}
    /\ relay_calls[1].pc = "done"
    /\ agent' = NextInBatch
    /\ UNCHANGED <<serverVars, relayVars, pumpVars, toolVars, proxyVars>>

\* serde_json::from_value::<Vec<IptablesRule>>(task.payload) of a payload
\* create_iptables_task built with serde_json::to_value(rules)
RulesPayload(payload) == [kind |-> "array", rules |-> payload]

\* iptables_manager.process_task(&task).await begins
AgentProcessTask ==
    /\ agent.poll_pc = "process_task"
    /\ iptables.tasks = agent.mark
    /\ ProcessTask(Head(agent.batch).task_type, RulesPayload(Head(agent.batch).payload))

\* process_task has returned to the task loop (an Err is logged)
AgentProcessDone ==
    /\ agent.poll_pc = "process_task"
    /\ iptables.tasks > agent.mark
    /\ iptables.pc = "idle"
    /\ agent' = NextInBatch
    /\ UNCHANGED <<serverVars, relayVars, pumpVars, toolVars, proxyVars>>

\* ---------------------------------------------------------- proxy, stats
\* the connections the proxy listener accepts in a behaviour
ProxyConns == 1..MaxProxyConns

\* the peer addresses (ip:port) of the inbound connections
ProxyPeers == {"10.0.0.9:50001", "10.0.0.9:50002"}

\* StatsCollector::new; connection_details is the key set of the map; the
\* counters are AtomicU64, far from wrapping at the byte counts of the model
NewStatsCollector ==
    [bytes_sent |-> 0, bytes_received |-> 0, connections |-> 0, connection_details |-> {}]

add_bytes_sent(st, bytes) == [st EXCEPT !.bytes_sent = @ + bytes]

add_bytes_received(st, bytes) == [st EXCEPT !.bytes_received = @ + bytes]

\* connection_details.insert(peer, ..) replaces an entry of the same peer
new_connection(st, peer) ==
    [st EXCEPT !.connections = @ + 1, !.connection_details = @ \cup {peer}]

\* #[allow(dead_code)]: no caller in the repository
close_connection(st, peer) == [st EXCEPT !.connection_details = @ \ {peer}]

get_stats(st) ==
    [bytes_sent |-> st.bytes_sent,
     bytes_received |-> st.bytes_received,
     total_connections |-> st.connections,
     active_connections |-> Cardinality(st.connection_details)]

\* a connection of the proxy: handle_connection's position, the peer, the two
\* copy tasks (pc and the n of the chunk in hand) and, per direction, the
\* bytes of the chunks write_all has written whole
NoProxyConnection ==
    [pc |-> "none", peer |-> "",
     pumps |-> [d \in Directions |-> [pc |-> "unspawned", n |-> 0]],
     forwarded |-> [d \in Directions |-> 0]]

\* ProxyServer::start's loop: accept an inbound connection and spawn
\* handle_connection for it; the loop takes whatever peer address accept()
\* reports, one that an earlier connection had included
ProxyAccept(c, peer) ==
    /\ proxy[c].pc = "none"
    /\ proxy' = [proxy EXCEPT ![c].pc = "connecting", ![c].peer = peer]
    /\ UNCHANGED stats
    /\ UNCHANGED <<serverVars, agentVars, relayVars, pumpVars, toolVars>>

\* handle_connection up to its select!: TcpStream::connect(target) and
\* peer_addr() leave through `?` on an error; otherwise new_connection, split
\* both streams, spawn both copy tasks
ProxyConnect(c, ok) ==
    /\ proxy[c].pc = "connecting"
    /\ IF ok
       THEN /\ stats' = new_connection(stats, proxy[c].peer)
            /\ proxy' = [proxy EXCEPT ![c].pc = "select",
                                      ![c].pumps = [d \in Directions |-> [pc |-> "read", n |-> 0]]]
       ELSE /\ stats' = stats
            /\ proxy' = [proxy EXCEPT ![c].pc = "failed"]
    /\ UNCHANGED <<serverVars, agentVars, relayVars, pumpVars, toolVars>>

\* a copy task's read(&mut buf).await: Ok(n) with n >= 1, or Ok(0) / Err,
\* which break the loop; the limiter is None (main never calls with_rate_limit)
ProxyPumpRead(c, d, n, ok) ==
    /\ proxy[c].pumps[d].pc = "read"
    /\ IF ok /\ n > 0
       THEN /\ n <= BufSize
            /\ proxy[c].forwarded[d] + n <= MaxProxyBytes
            /\ proxy' = [proxy EXCEPT ![c].pumps[d] = [pc |-> "write", n |-> n]]
       ELSE /\ n = 0
            /\ proxy' = [proxy EXCEPT ![c].pumps[d] = [pc |-> "finished", n |-> 0]]
    /\ UNCHANGED stats
    /\ UNCHANGED <<serverVars, agentVars, relayVars, pumpVars, toolVars>>

\* a copy task's write_all(&buf[..n]).await and, when it is Ok, the
\* add_bytes_sent(n) or add_bytes_received(n) that follows it without an
\* await; an Err breaks the loop
ProxyPumpWrite(c, d, ok) ==
    /\ proxy[c].pumps[d].pc = "write"
    /\ IF ok
       THEN /\ stats' = IF d = "client_to_server"
                        THEN add_bytes_sent(stats, proxy[c].pumps[d].n)
                        ELSE add_bytes_received(stats, proxy[c].pumps[d].n)
            /\ proxy' = [proxy EXCEPT ![c].pumps[d] = [pc |-> "read", n |-> 0],
                                      ![c].forwarded[d] = @ + proxy[c].pumps[d].n]
       ELSE /\ stats' = stats
            /\ proxy' = [proxy EXCEPT ![c].pumps[d] = [pc |-> "finished", n |-> 0]]
    /\ UNCHANGED <<serverVars, agentVars, relayVars, pumpVars, toolVars>>

\* handle_connection's tokio::select! over the two JoinHandles and its
\* return: nothing on this path calls close_connection
ProxySelect(c) ==
    /\ proxy[c].pc = "select"
    /\ \E d \in Directions : proxy[c].pumps[d].pc = "finished"
    /\ proxy' = [proxy EXCEPT ![c].pc = "returned"]
    /\ UNCHANGED stats
    /\ UNCHANGED <<serverVars, agentVars, relayVars, pumpVars, toolVars>>

\* ---------------------------------------------------------- specification
\* ClientManager::new over an empty store; interval()'s first tick is immediate
Init ==
    /\ now = 0
    /\ nextTick = 0
    /\ clients = [id \in {} |-> 0]
    /\ db_clients = [id \in {} |-> 0]
    /\ db_tasks = {}
    /\ tokens = 0
    /\ calls = [c \in Calls |-> IdleCall]
    /\ sweep = [pc |-> "tick", now |-> 0, to_remove |-> {}, id |-> ""]
    /\ delivered = {}
    /\ agent = IdleAgent
    /\ active_relays = [id \in {} |-> NoConnection]
    /\ relay_lock = [readers |-> {}, queue |-> <<>>]
    /\ relay_calls = [k \in RelayCalls |-> IdleRelayCall]
    /\ relay_tasks = [t \in RelayTasks |-> NoRelayTask]
    /\ wire = [d \in Directions |-> NewWire]
    /\ pumps = [d \in Directions |-> [pc |-> "unspawned", buf |-> <<>>]]
    /\ relay_conn = "none"
    /\ conn_config = NoConnection.config
    /\ crypto = IdleCrypto
    /\ stream = NoStream
    /\ limiter = NoLimiter
    /\ iptables = NewIptablesManager
    /\ stats = NewStatsCollector
    /\ proxy = [c \in ProxyConns |-> NoProxyConnection]

\* the store awaits of client.register and of client.heartbeat with metrics: None
HandlerSteps(b) ==
    \/ \E c \in Calls : RegisterSave(c, b) /\ UNCHANGED clientSide
    \/ \E c \in Calls : HeartbeatSave(c, b) /\ UNCHANGED clientSide
    \/ \E c \in Calls : HeartbeatFetch(c, b) /\ UNCHANGED clientSide

\* client.register, and client.heartbeat with metrics: None
Handlers(b) ==
    \/ \E c \in Calls, id \in b.agents : RegisterCall(c, id, b) /\ UNCHANGED clientSide
    \/ \E c \in Calls, id \in b.ids, token \in 0..tokens, metrics \in b.metrics :
            HeartbeatCall(c, id, token, metrics, b) /\ UNCHANGED clientSide
    \/ HandlerSteps(b)
    \/ \E c \in Calls : Reply(c) /\ UNCHANGED clientSide

\* client.heartbeat with metrics: Some(..), the update_metrics steps
MetricsSteps(b) ==
    \/ \E c \in Calls : HeartbeatMetrics(c) /\ UNCHANGED clientSide
    \/ \E c \in Calls : HeartbeatMetricsSave(c, b) /\ UNCHANGED clientSide
    \/ \E c \in Calls : HeartbeatMetricsInsert(c, b) /\ UNCHANGED clientSide

\* relay.start, relay.stop, iptables.update / iptables.apply_rule
Enqueues(b) ==
    \/ \E id \in b.ids, cfg \in RelayConfigs :
            CreateRelayTask(id, cfg, b) /\ UNCHANGED clientSide
    \/ \E id \in b.ids, cfg \in RelayConfigs :
            CreateStopRelayTask(id, cfg, b) /\ UNCHANGED clientSide
    \/ \E id \in b.ids, rules \in RuleLists :
            CreateIptablesTask(id, rules, b) /\ UNCHANGED clientSide

\* cleanup_inactive_clients after the scan
CleanupRemovals(b) ==
    \/ \E id \in ClientIds : CleanupRemove(id) /\ UNCHANGED clientSide
    \/ CleanupUpdateStatus(b) /\ UNCHANGED clientSide

\* the ticker and the first loop of the pass
Cleanup(b) == CleanupScan(b) /\ UNCHANGED clientSide

\* the coordinator's clock
Clock(b) == Tick(b) /\ UNCHANGED clientSide

\* Spec: the registry's liveness machine.  Agents register and heartbeat (with
\* and without metrics), the cleanup pass runs every CleanupInterval; handlers
\* and the pass run one at a time; the store answers every call; no operator
\* request arrives.
Fleet ==
    [serial |-> TRUE, store_fails |-> FALSE, agents |-> ClientIds, ids |-> ClientIds,
     metrics |-> BOOLEAN, time |-> MaxTime, tokens |-> MaxTokens, tasks |-> 0]

Next ==
    \/ Handlers(Fleet) \/ MetricsSteps(Fleet)
    \/ Cleanup(Fleet) \/ CleanupRemovals(Fleet) \/ Clock(Fleet)

Spec == Init /\ [][Next]_vars

\* SpecTasks: the task queue.  Operator requests enqueue tasks for two client
\* ids, one of which registers; both ids poll with heartbeats that carry no
\* metrics (RegistrationManager::get_pending_tasks); store calls may fail;
\* handlers run one at a time.  The horizon is one
\* cleanup interval: no heartbeat is older than HeartbeatTimeout within it, so
\* the cleanup pass scans and has nothing to remove.
QueueMaxTime == CleanupInterval

Queue ==
    [serial |-> TRUE, store_fails |-> TRUE, agents |-> {"c1"}, ids |-> ClientIds,
     metrics |-> {FALSE}, time |-> QueueMaxTime, tokens |-> QueueMaxTokens,
     tasks |-> QueueMaxTasks]

NextTasks == Handlers(Queue) \/ Enqueues(Queue) \/ Cleanup(Queue) \/ Clock(Queue)

SpecTasks == Init /\ [][NextTasks]_vars

\* SpecConc: one agent's handlers, the operator's requests and the cleanup
\* pass interleaved at their awaits.
Conc ==
    [serial |-> FALSE, store_fails |-> FALSE, agents |-> {"c1"}, ids |-> {"c1"},
     metrics |-> {FALSE}, time |-> ConcMaxTime, tokens |-> ConcMaxTokens,
     tasks |-> ConcMaxTasks]

NextConc ==
    \/ Handlers(Conc) \/ Enqueues(Conc)
    \/ Cleanup(Conc) \/ CleanupRemovals(Conc) \/ Clock(Conc)

SpecConc == Init /\ [][NextConc]_vars

\* ---------------------------------------------------- the worker threads
\* SpecWorkers: the handlers of one agent's client.register and
\* client.heartbeat, the operator's client.list and the cleanup task are tasks
\* of one tokio runtime with MaxWorkers worker threads.  A task occupies a
\* thread only while it is polled; at an await of the store it gives the
\* thread back.  A DashMap call (get_mut, insert, iter) on a shard that a
\* RefMut has locked does not await: it blocks the thread it runs on until the
\* RefMut is dropped.
MaxWorkers == 2

PoolMaxTokens == 2

Pool ==
    [serial |-> FALSE, store_fails |-> FALSE, agents |-> {"c1"}, ids |-> {"c1"},
     metrics |-> {FALSE}, time |-> 0, tokens |-> PoolMaxTokens, tasks |-> 0]

\* the worker threads stuck inside a DashMap call
BlockedThreads ==
    Cardinality({c \in Calls : calls[c].pc = "blocked"})
        + (IF sweep.pc = "scan_blocked" THEN 1 ELSE 0)

\* some worker thread can poll a task
FreeWorker == BlockedThreads < MaxWorkers

\* the shards a handler's map call locks: iter() visits every shard,
\* get_mut and insert the shard of their key
MapFree(call) ==
    IF call.op = "list" THEN \A id \in ClientIds : ~LockHeld(id)
                        ELSE ~LockHeld(call.client_id)

\* Vec<ClientInfo> of client.list
ListResult(list) ==
    [kind |-> "ok", code |-> 0, message |-> "", token |-> 0, tasks |-> <<>>,
     clients |-> list]

\* client.heartbeat whose get_mut finds the shard locked
HeartbeatBlocks(c, id, token, b) ==
    /\ CanBegin(c, b)
    /\ LockHeld(id)
    /\ calls' = Begun(c, [IdleCall EXCEPT !.op = "heartbeat", !.client_id = id,
                                          !.token = token, !.pc = "blocked"])
    /\ UNCHANGED <<now, nextTick, clients, db_clients, db_tasks, tokens, sweep, delivered>>

\* client.register whose clients.insert finds the shard locked; the token
\* was generated before the insert
RegisterBlocks(c, id, b) ==
    /\ CanBegin(c, b)
    /\ LockHeld(id)
    /\ tokens < b.tokens
    /\ tokens' = tokens + 1
    /\ calls' = Begun(c, [IdleCall EXCEPT !.op = "register", !.client_id = id,
                                          !.token = tokens + 1, !.pc = "blocked"])
    /\ UNCHANGED <<now, nextTick, clients, db_clients, db_tasks, sweep, delivered>>

\* client.list: list_clients has no await, the handler returns when iter()
\* has visited every shard
ListCall(c, b) ==
    /\ CanBegin(c, b)
    /\ calls' = IF MapFree([IdleCall EXCEPT !.op = "list"])
                 THEN Begun(c, [IdleCall EXCEPT !.op = "list", !.pc = "done",
                                                !.result = ListResult(ListClients)])
                 ELSE Begun(c, [IdleCall EXCEPT !.op = "list", !.pc = "blocked"])
    /\ UNCHANGED <<now, nextTick, clients, db_clients, db_tasks, tokens, sweep, delivered>>

\* the RefMut was dropped: the blocked map call returns and the handler runs
\* on to its next await
CallResumes(c) ==
    /\ calls[c].pc = "blocked"
    /\ MapFree(calls[c])
    /\ CASE calls[c].op = "heartbeat" ->
                LET updated == UpdateHeartbeat(calls[c].client_id)
                IN  /\ clients' = updated.clients
                    /\ calls' = IF updated.found
                                 THEN Moved(c, "db_update_heartbeat")
                                 ELSE Finished(c, ErrorResult("Client not found"))
         [] calls[c].op = "register" ->
                /\ clients' = Put(clients, calls[c].client_id,
                                  NewClientState(calls[c].client_id, calls[c].token))
                /\ calls' = Moved(c, "save_client")
         [] OTHER ->
                /\ clients' = clients
                /\ calls' = Finished(c, ListResult(ListClients))
    /\ UNCHANGED <<now, nextTick, db_clients, db_tasks, tokens, sweep, delivered>>

\* the ticker fired and the scan's iter() finds a shard locked
CleanupScanBlocks ==
    /\ sweep.pc = "tick"
    /\ now >= nextTick
    /\ \E id \in ClientIds : LockHeld(id)
    /\ nextTick' = nextTick + CleanupInterval
    /\ sweep' = [sweep EXCEPT !.pc = "scan_blocked", !.now = now]
    /\ UNCHANGED <<now, clients, db_clients, db_tasks, tokens, calls, delivered>>

\* the scan goes on once the shard is free
CleanupScanResumes ==
    /\ sweep.pc = "scan_blocked"
    /\ \A id \in ClientIds : ~LockHeld(id)
    /\ sweep' = [pc |-> IF TimedOut(sweep.now) = {} THEN "tick" ELSE "remove",
                 now |-> sweep.now, to_remove |-> TimedOut(sweep.now), id |-> ""]
    /\ UNCHANGED <<now, nextTick, clients, db_clients, db_tasks, tokens, calls, delivered>>

\* a request arrives and its handler is polled for the first time
WorkerArrivals(b) ==
    \/ \E c \in Calls, id \in b.agents :
            FreeWorker /\ RegisterCall(c, id, b) /\ UNCHANGED clientSide
    \/ \E c \in Calls, id \in b.agents :
            FreeWorker /\ RegisterBlocks(c, id, b) /\ UNCHANGED clientSide
    \/ \E c \in Calls, id \in b.ids, token \in 0..tokens :
            FreeWorker /\ HeartbeatCall(c, id, token, FALSE, b) /\ UNCHANGED clientSide
    \/ \E c \in Calls, id \in b.ids, token \in 0..tokens :
            FreeWorker /\ HeartbeatBlocks(c, id, token, b) /\ UNCHANGED clientSide
    \/ \E c \in Calls : FreeWorker /\ ListCall(c, b) /\ UNCHANGED clientSide
    \/ \E c \in Calls : Reply(c) /\ UNCHANGED clientSide

\* what the runtime owes handler c: the store's answer and the poll that
\* follows it need a worker thread, a blocked map call has its own
CallProgress(c, b) ==
    \/ FreeWorker /\ RegisterSave(c, b) /\ UNCHANGED clientSide
    \/ FreeWorker /\ HeartbeatSave(c, b) /\ UNCHANGED clientSide
    \/ FreeWorker /\ HeartbeatFetch(c, b) /\ UNCHANGED clientSide
    \/ CallResumes(c) /\ UNCHANGED clientSide

\* the cleanup task's first tick
WorkerCleanup(b) ==
    \/ FreeWorker /\ CleanupScan(b) /\ UNCHANGED clientSide
    \/ FreeWorker /\ CleanupScanBlocks /\ UNCHANGED clientSide

SweepProgress == CleanupScanResumes /\ UNCHANGED clientSide

NextWorkers ==
    \/ WorkerArrivals(Pool)
    \/ \E c \in Calls : CallProgress(c, Pool)
    \/ WorkerCleanup(Pool)
    \/ SweepProgress

\* Strong fairness: a handler whose next step is possible again and again
\* (the shard free, a worker thread free) is not passed over for ever.
SpecWorkers ==
    /\ Init /\ [][NextWorkers]_vars
    /\ \A c \in Calls : SF_vars(CallProgress(c, Pool))
    /\ SF_vars(SweepProgress)

\* SpecFaults: two agents register and heartbeat, the cleanup pass runs, and
\* every store call may fail; handlers and the pass run one at a time.
Faulty ==
    [serial |-> TRUE, store_fails |-> TRUE, agents |-> ClientIds, ids |-> ClientIds,
     metrics |-> {FALSE}, time |-> FaultMaxTime, tokens |-> FaultMaxTokens, tasks |-> 0]

NextFaults ==
    \/ Handlers(Faulty)
    \/ Cleanup(Faulty) \/ CleanupRemovals(Faulty) \/ Clock(Faulty)

SpecFaults == Init /\ [][NextFaults]_vars

\* SpecBacklog: the task queue of one agent over a horizon in which the
\* cleanup pass takes the agent out of the registry and the agent registers
\* again; the store answers every call; handlers run one at a time.
Backlog ==
    [serial |-> TRUE, store_fails |-> FALSE, agents |-> {"c1"}, ids |-> {"c1"},
     metrics |-> {FALSE}, time |-> BacklogMaxTime, tokens |-> BacklogMaxTokens,
     tasks |-> BacklogMaxTasks]

NextBacklog ==
    \/ Handlers(Backlog) \/ Enqueues(Backlog)
    \/ Cleanup(Backlog) \/ CleanupRemovals(Backlog) \/ Clock(Backlog)

SpecBacklog == Init /\ [][NextBacklog]_vars

\* SpecAgent: one agent process, its registration loop and its task loop,
\* against the coordinator.  The agent's requests are the only ones; a request
\* may fail in transport; store calls may fail; the loops' ticks are not tied
\* to the coordinator's clock.
AgentRun ==
    [serial |-> TRUE, store_fails |-> TRUE, agents |-> {AgentId}, ids |-> {AgentId},
     metrics |-> BOOLEAN, time |-> AgentMaxTime, tokens |-> AgentMaxTokens, tasks |-> 0]

NextAgent ==
    \/ RegistrationLoop(AgentRun) \/ TaskLoop(AgentRun)
    \/ HandlerSteps(AgentRun) \/ MetricsSteps(AgentRun)
    \/ Cleanup(AgentRun) \/ CleanupRemovals(AgentRun) \/ Clock(AgentRun)

SpecAgent == Init /\ [][NextAgent]_vars

\* SpecRelay: the RelayManager of one agent.  start_relay and stop_relay calls
\* arrive for any descriptor, up to MaxRelayCalls at a time; every call and
\* every background task that can take its next step eventually takes it.
NextRelay ==
    \/ \E k \in RelayCalls : RelayCallStep(k)
    \/ \E t \in RelayTasks : RelayTaskStep(t)

\* the steps the tokio runtime owes a call that is under way
RelayCallProgress(k) == StartRelayInsert(k) \/ StopRelayRemove(k) \/ RelayReturn(k)

\* the steps the tokio runtime owes a spawned task: those before it is in its
\* accept loop, and the removal of the entry once run() has failed
RelayTaskProgress(t) ==
    \/ TaskRequestRead(t)
    \/ TaskRead(t)
    \/ relay_tasks[t].pc = "write_wait" /\ TaskRunFailed(t)

SpecRelay ==
    /\ Init /\ [][NextRelay]_vars
    /\ \A k \in RelayCalls : WF_vars(RelayCallProgress(k))
    /\ \A t \in RelayTasks : WF_vars(RelayTaskProgress(t))

\* SpecPump: one inbound connection of a relay job, from accept to the end of
\* both copy tasks; the peers send up to MaxBytes bytes each way and close
\* when they like; reads and writes may fail.
NextPumpOf(dirs) ==
    \/ \E config \in ListeningConfigs, connected \in BOOLEAN :
            HandleRelayConnection(config, connected)
    \/ \E d \in dirs, byte \in ByteValues : PeerSend(d, byte)
    \/ \E d \in dirs : PeerClose(d)
    \/ \E d \in dirs, n \in 0..MaxBytes, ok \in BOOLEAN : PumpRead(d, n, ok)
    \/ \E d \in dirs, ok \in BOOLEAN : PumpWrite(d, ok)
    \/ RelayTrafficSelect

NextPump == NextPumpOf(Directions)

SpecPump == Init /\ [][NextPump]_vars

\* SpecCrypto: encrypt and decrypt of both ciphers over every key, nonce and
\* plaintext of the bounds, decrypt also under another key and on every
\* prefix of the frame.
NextCrypto ==
    \/ \E api \in CryptoApis, cipher \in Ciphers, key \in Keys, nonce \in Nonces,
          plaintext \in Plaintexts : CryptoEncrypt(api, cipher, key, nonce, plaintext)
    \/ \E key \in Keys, n \in 0..(NonceLen + MaxPlain + TagLen) : CryptoDecrypt(key, n)
    \/ CryptoDone

SpecCrypto == Init /\ [][NextCrypto]_vars

\* SpecStream: one symmetric-encrypted stream; the connection under it takes
\* any part of a frame per write and delivers any number of the bytes in
\* flight per read; the caller reads into buffers of every size.
NextStream ==
    \/ \E cipher \in Ciphers, key \in Keys : WrapStream(cipher, key)
    \/ \E plaintext \in StreamPlaintexts, nonce \in Nonces,
          k \in {0} \cup StreamCuts, ok \in BOOLEAN :
            StreamPollWrite(plaintext, nonce, k, ok)
    \/ \E m \in StreamCuts, remaining \in 1..MaxReadBuf : StreamPollRead(m, remaining)

SpecStream == Init /\ [][NextStream]_vars

\* SpecLimiter: one RateLimiter of every rate up to MaxRate, its callers and
\* the passing of time.
NextLimiter ==
    \/ \E bytes_per_second \in 0..MaxRate, nested \in BOOLEAN :
            LimiterNew(bytes_per_second, nested)
    \/ LimiterTick
    \/ \E bytes \in LimiterRequests : WaitForCapacity(bytes)
    \/ UntilReady
    \/ \E bytes \in LimiterRequests : TryConsume(bytes)

SpecLimiter == Init /\ [][NextLimiter]_vars

\* SpecIptables: the firewall tasks of one agent, each rule's commands
\* succeeding or failing in every way.
NextIptables ==
    \/ \E task_type \in {"UpdateIptables", "UpdateConfig"}, payload \in IptablesPayloads :
            ProcessTask(task_type, payload)
    \/ \E outcome \in RuleOutcomes : ApplyRule(outcome)
    \/ ProcessTaskReturn

SpecIptables == Init /\ [][NextIptables]_vars

\* SpecListener: the relay jobs of one agent whose task loop makes its
\* start_relay and stop_relay calls one after the other, with the inbound
\* connections the listeners accept and their handlers.
NextListener ==
    \/ RelayCallStep(1)
    \/ \E t \in RelayTasks : RelayTaskStep(t)
    \/ \E t \in RelayTasks : RelayConnStep(t)

SpecListener == Init /\ [][NextListener]_vars

\* SpecDispatch: one agent with a coordinator that answers: the agent
\* registers, its registration loop heartbeats with the metrics it collected
\* (collect_metrics has no failing path), its task loop polls and works
\* through the batches, while operator requests queue up to DispatchMaxTasks
\* tasks (StartRelay, StopRelay, UpdateIptables) for it.  No time passes, no
\* inbound connection arrives at a relay listener.  Every step the runtime
\* owes the task loop, a manager call or a background task is eventually taken.
Dispatch ==
    [serial |-> TRUE, store_fails |-> FALSE, agents |-> {AgentId}, ids |-> {AgentId},
     metrics |-> {TRUE}, time |-> 0, tokens |-> 1, tasks |-> DispatchMaxTasks]

\* the relay descriptors of the queued tasks: one with a listener, one without
DispatchConfigs ==
    {c \in AgentRelayConfigs : c.entry_point \in {"127.0.0.1:9001", ""}}

\* the rows queued for the agent with this task_type text
QueuedOfType(text) == {r \in DbPendingRows(AgentId) : r.task_type = text}

\* the task loop polls while the batch it would get stays within the bounds
\* on background tasks and on process_task calls
RoomForBatch ==
    /\ Cardinality({t \in RelayTasks : relay_tasks[t].pc # "none"})
         + Cardinality(QueuedOfType("start_relay")) <= MaxRelayTasks
    /\ iptables.tasks + Cardinality(QueuedOfType("update_iptables")) <= MaxIptablesTasks

DispatchEnqueues ==
    \/ \E cfg \in DispatchConfigs :
            CreateRelayTask(AgentId, cfg, Dispatch) /\ UNCHANGED clientSide
    \/ \E cfg \in DispatchConfigs :
            CreateStopRelayTask(AgentId, cfg, Dispatch) /\ UNCHANGED clientSide
    \/ \E rules \in RuleLists :
            CreateIptablesTask(AgentId, rules, Dispatch) /\ UNCHANGED clientSide

\* the agent's two loops against the coordinator
DispatchLoops ==
    \/ \E c \in Calls : AgentRegisterCall(c, Dispatch)
    \/ AgentRegisterReturn
    \/ \E c \in Calls, metrics \in Dispatch.metrics : AgentHeartbeatCall(c, metrics, Dispatch)
    \/ AgentHeartbeatReturn
    \/ RoomForBatch /\ \E c \in Calls : AgentPollCall(c, Dispatch)
    \/ AgentPollReturn

\* the task loop's `for task in tasks` and the calls it awaits
DispatchSteps ==
    \/ AgentDispatchTask
    \/ AgentStartRelay
    \/ AgentStopRelay
    \/ StartRelayInsert(1)
    \/ StopRelayRemove(1)
    \/ AgentRelayDone
    \/ agent.poll_pc \notin {"start_relay", "stop_relay"} /\ RelayReturn(1)
    \/ AgentProcessTask
    \/ \E outcome \in RuleOutcomes : ApplyRule(outcome)
    \/ ProcessTaskReturn
    \/ AgentProcessDone

NextDispatch ==
    \/ DispatchLoops
    \/ HandlerSteps(Dispatch)
    \/ MetricsSteps(Dispatch)
    \/ DispatchEnqueues
    \/ DispatchSteps
    \/ \E t \in RelayTasks : TaskRequestRead(t)
    \/ \E t \in RelayTasks : TaskRead(t)

SpecDispatch ==
    /\ Init /\ [][NextDispatch]_vars
    /\ WF_vars(DispatchSteps)
    /\ WF_vars(AgentPollReturn)
    /\ WF_vars(HandlerSteps(Dispatch))
    /\ WF_vars(MetricsSteps(Dispatch))
    /\ \A t \in RelayTasks : WF_vars(RelayTaskProgress(t))

\* SpecProxy: the agent's proxy listener with up to MaxProxyConns inbound
\* connections, each forwarding up to MaxProxyBytes bytes per direction in
\* chunks of one or two bytes; connects, reads and writes may fail.
NextProxyOf(conns) ==
    \/ \E c \in conns, peer \in ProxyPeers : ProxyAccept(c, peer)
    \/ \E c \in conns, ok \in BOOLEAN : ProxyConnect(c, ok)
    \/ \E c \in conns, d \in Directions, n \in 0..2, ok \in BOOLEAN :
            ProxyPumpRead(c, d, n, ok)
    \/ \E c \in conns, d \in Directions, ok \in BOOLEAN : ProxyPumpWrite(c, d, ok)
    \/ \E c \in conns : ProxySelect(c)

NextProxy == NextProxyOf(ProxyConns)

SpecProxy == Init /\ [][NextProxy]_vars

\* SpecTraffic: one proxied connection next to one inbound connection of a
\* relay job whose entry-side peer sends up to MaxBytes bytes.
NextTraffic ==
    \/ NextProxyOf({1})
    \/ NextPumpOf({"client_to_server"})

SpecTraffic == Init /\ [][NextTraffic]_vars

\* ================================================================ claims
\* a handler of client.heartbeat that has its result
HeartbeatDone(c) == calls[c].pc = "done" /\ calls[c].op = "heartbeat"

\* this step is slot c taking a client.heartbeat request
HeartbeatArrives(c) == calls[c].pc = "idle" /\ calls'[c].op = "heartbeat"

\* the cleanup pass has taken id out of the registry and marked the store row
SweptOffline(id) ==
    /\ id \notin DOMAIN clients
    /\ id \in DOMAIN db_clients
    /\ db_clients[id].status = "offline"

\* C1 (as claimed): a task that went out in one heartbeat response is in no
\* later heartbeat response.
C1_AtMostOnce ==
    \A c \in Calls : HeartbeatDone(c) => TaskIds(calls[c].result) \cap delivered = {}

\* C2 (as claimed): two heartbeat calls of one agent that overlap never both
\* return the same task.
C2_RacingHeartbeatsShareNoTask ==
    \A c, d \in Calls :
        /\ c # d /\ HeartbeatDone(c) /\ HeartbeatDone(d)
        /\ d \in calls[c].with
        /\ calls[c].client_id = calls[d].client_id
        => TaskIds(calls[c].result) \cap TaskIds(calls[d].result) = {}

\* C3: a heartbeat that succeeds returns exactly the pending tasks of its
\* client id, each as it was enqueued, with created_at never decreasing; a
\* heartbeat without pending tasks succeeds with an empty list; the only
\* failures are a store error and an id without a record.
C3_HeartbeatReturnsPendingInOrder ==
    \A c \in Calls :
        HeartbeatDone(c) =>
            LET r == calls[c].result
                mine == {row \in db_tasks : row.client_id = calls[c].client_id /\ row.status = "pending"}
            IN  /\ r.kind = "ok" =>
                    /\ Len(r.tasks) = Cardinality(mine)
                    /\ \A row \in mine : \E i \in DOMAIN r.tasks :
                          /\ r.tasks[i].id = row.id
                          /\ TaskTypeStr(r.tasks[i].task_type) = row.task_type
                          /\ r.tasks[i].payload = row.payload
                          /\ r.tasks[i].created_at = row.created_at
                    /\ \A i, j \in DOMAIN r.tasks :
                          i < j => r.tasks[i].created_at <= r.tasks[j].created_at
                /\ r.kind = "error" =>
                    \/ r.message = "store error"
                    \/ calls[c].client_id \notin DOMAIN clients

\* C3 witness: a response with two tasks that were enqueued at different times
C3_Witness ==
    \E c \in Calls :
        /\ HeartbeatDone(c) /\ calls[c].result.kind = "ok"
        /\ Len(calls[c].result.tasks) = 2
        /\ calls[c].result.tasks[1].created_at < calls[c].result.tasks[2].created_at

\* C4 (as claimed): no step takes a record out of the registry.
C4_RecordsPersist == [][DOMAIN clients \subseteq DOMAIN clients']_vars

\* C5 (as claimed): a heartbeat of an agent the cleanup pass has marked
\* offline is accepted and leaves the agent Online.
C5_OfflineAgentHeartbeats ==
    [][\A c \in Calls :
          HeartbeatArrives(c) /\ SweptOffline(calls'[c].client_id)
          => /\ calls'[c].result.kind # "error"
             /\ calls'[c].client_id \in DOMAIN clients'
             /\ clients'[calls'[c].client_id].status = "Online"]_vars

\* C6 (as claimed): a step of the cleanup pass turns the timed-out record it
\* handles to Offline and leaves every other record as it is.
C6_SweepMarksExactlyTimedOut ==
    [][sweep' # sweep =>
          \A id \in DOMAIN clients :
              /\ id \in DOMAIN clients'
              /\ IF sweep'.pc = "update_status" /\ sweep'.id = id
                 THEN /\ sweep.now - clients[id].last_heartbeat > HeartbeatTimeout
                      /\ clients'[id].status = "Offline"
                 ELSE clients'[id] = clients[id]]_vars

\* C7 (as claimed): the cleanup pass does not drop or change a record whose
\* heartbeat was refreshed after the pass read it.
C7_NoLostHeartbeat ==
    [][\A id \in DOMAIN clients :
          /\ sweep.pc = "remove" /\ sweep' # sweep /\ sweep'.id = id
          /\ sweep.now - clients[id].last_heartbeat <= HeartbeatTimeout
          => id \in DOMAIN clients' /\ clients'[id] = clients[id]]_vars

\* C8 (as claimed): a record is Online exactly when its last heartbeat is
\* within the timeout.
C8_OnlineIffWithinTimeout ==
    \A id \in DOMAIN clients :
        clients[id].status = "Online" <=> now - clients[id].last_heartbeat <= HeartbeatTimeout

\* C8 (amended): every record in the registry is Online; its last heartbeat
\* was within the timeout at the latest cleanup scan unless that pass still
\* has it queued for removal; and with passes running on their ticks it is at
\* most timeout + interval old.
C8_OnlineWithinTimeoutAtLastScan ==
    \A id \in DOMAIN clients :
        /\ clients[id].status = "Online"
        /\ \/ id \in sweep.to_remove
           \/ sweep.now - clients[id].last_heartbeat <= HeartbeatTimeout
        /\ now - clients[id].last_heartbeat <= HeartbeatTimeout + CleanupInterval

\* C8 witness: between two passes, an Online record older than the timeout
C8_Witness ==
    \E id \in DOMAIN clients :
        /\ sweep.pc = "tick" /\ now < nextTick
        /\ clients[id].status = "Online"
        /\ now - clients[id].last_heartbeat > HeartbeatTimeout

\* C9: a heartbeat for an id without a registry record ends at once with the
\* not-found error and no tasks, and changes neither the registry nor the
\* store nor what counts as delivered.
C9_UnknownIdRejected ==
    [][\A c \in Calls :
          HeartbeatArrives(c) /\ calls'[c].client_id \notin DOMAIN clients
          => /\ calls'[c].pc = "done"
             /\ calls'[c].result.kind = "error"
             /\ calls'[c].result.message = "Client not found"
             /\ calls'[c].result.tasks = <<>>
             /\ clients' = clients
             /\ db_clients' = db_clients
             /\ db_tasks' = db_tasks
             /\ delivered' = delivered]_vars

\* C9 witness: the not-found result for an id that has a task queued, while
\* another agent is registered
C9_Witness ==
    \E c \in Calls :
        /\ HeartbeatDone(c)
        /\ calls[c].result.message = "Client not found"
        /\ \E row \in db_tasks : row.client_id = calls[c].client_id
        /\ \E id \in DOMAIN clients : id # calls[c].client_id

\* C10 (as claimed): a heartbeat whose token is not the one register issued
\* last for that agent is rejected and does not touch the record.
C10_WrongTokenRejected ==
    [][\A c \in Calls :
          /\ HeartbeatArrives(c)
          /\ calls'[c].client_id \in DOMAIN clients
          /\ calls'[c].token # clients[calls'[c].client_id].token
          => /\ calls'[c].result.kind = "error"
             /\ clients' = clients]_vars

\* this step is slot c taking a client.register request
RegisterArrives(c) == calls[c].pc = "idle" /\ calls'[c].op = "register"

\* this step is the register handler in slot c getting its result
RegisterReturns(c) == calls[c].pc = "save_client" /\ calls'[c].pc = "done"

\* C11: with handlers one at a time and a store that answers, register puts
\* exactly the record {Online, last_heartbeat = now, a token no record had}
\* under its id, adding the id if it was unknown (never seen or swept) and
\* overwriting the record if it was there, leaves every other record alone, and
\* returns success with that token.
C11_RegisterUpserts ==
    [][\A c \in Calls :
          /\ RegisterArrives(c) =>
                LET id == calls'[c].client_id
                IN  /\ DOMAIN clients' = DOMAIN clients \cup {id}
                    /\ clients'[id].info.id = id
                    /\ clients'[id].status = "Online"
                    /\ clients'[id].last_heartbeat = now'
                    /\ clients'[id].token = calls'[c].token
                    /\ \A other \in DOMAIN clients : clients[other].token # calls'[c].token
                    /\ \A other \in DOMAIN clients \ {id} : clients'[other] = clients[other]
          /\ RegisterReturns(c) =>
                LET id == calls[c].client_id
                IN  /\ calls'[c].result.kind = "ok"
                    /\ id \in DOMAIN clients'
                    /\ calls'[c].result.token = clients'[id].token
                    /\ clients'[id].status = "Online"
                    /\ clients'[id].last_heartbeat = now']_vars

\* C11 witness: register has returned a second token to an agent the cleanup
\* pass had swept (its store row still says offline)
C11_Witness ==
    \E c \in Calls :
        /\ calls[c].op = "register" /\ calls[c].pc = "done"
        /\ calls[c].result.kind = "ok" /\ calls[c].result.token > 1
        /\ calls[c].client_id \in DOMAIN db_clients
        /\ db_clients[calls[c].client_id].status = "offline"

\* C12 (as claimed): list() has the identity of every agent that has
\* registered, swept ones included.
C12_ListHasEveryRegistered ==
    \A id \in DOMAIN db_clients : \E info \in ListClients : info.id = id

\* this step is the heartbeat handler in slot c getting the pending tasks
HeartbeatReturns(c) == calls[c].pc = "get_pending_tasks" /\ calls'[c].pc = "done"

\* C13: whatever the registry holds for the agent, an enqueued task is a
\* pending row from then on: no step removes it or changes it, and every
\* heartbeat of that agent that succeeds returns it.
C13_QueuedUntilPolled ==
    [][/\ \A row \in db_tasks : row \in db_tasks'
       /\ \A row \in db_tasks' : row.status = "pending"
       /\ \A c \in Calls :
             HeartbeatReturns(c) /\ calls'[c].result.kind = "ok"
             => \A row \in db_tasks :
                   row.client_id = calls[c].client_id
                   => row.id \in TaskIds(calls'[c].result)]_vars

\* C13 witness: a pending task that was enqueued for an agent after the
\* cleanup pass had swept it
C13_Witness ==
    \E row \in db_tasks :
        /\ SweptOffline(row.client_id)
        /\ row.status = "pending"
        /\ row.created_at - db_clients[row.client_id].last_heartbeat > HeartbeatTimeout

\* C14: a register or heartbeat handler whose store call failed ends with the
\* InternalError error while the registry keeps what the handler wrote: the
\* record is there, Online, with last_heartbeat = now and, after register,
\* the token of this call.
C14_StoreErrorKeepsMemory ==
    \A c \in Calls :
        calls[c].pc = "done" /\ calls[c].result.message = "store error"
        => /\ calls[c].result.kind = "error"
           /\ calls[c].result.code = InternalError
           /\ calls[c].client_id \in DOMAIN clients
           /\ clients[calls[c].client_id].status = "Online"
           /\ clients[calls[c].client_id].last_heartbeat = now
           /\ calls[c].op = "register"
              => clients[calls[c].client_id].token = calls[c].token

\* C14 witness: a heartbeat failed in the store and the registry's
\* last_heartbeat is ahead of the store's
C14_Witness ==
    \E c \in Calls :
        /\ HeartbeatDone(c) /\ calls[c].result.message = "store error"
        /\ calls[c].client_id \in DOMAIN db_clients
        /\ clients[calls[c].client_id].last_heartbeat
             > db_clients[calls[c].client_id].last_heartbeat

\* C15: whether or not the store takes the offline status, the step after a
\* removal leaves the removed agent out of the registry, keeps the rest of
\* to_remove and goes on with it (or ends the pass), and does not touch the
\* ticker; and whenever the cleanup task waits for its tick, the next pass is
\* at most one interval away.
C15_SweepSurvivesStoreFailure ==
    /\ [](sweep.pc = "tick" => nextTick <= now + CleanupInterval)
    /\ [][sweep.pc = "update_status" /\ sweep' # sweep
          => /\ sweep.id \notin DOMAIN clients'
             /\ clients' = clients
             /\ nextTick' = nextTick
             /\ sweep'.to_remove = sweep.to_remove
             /\ sweep'.pc = IF sweep.to_remove = {} THEN "tick" ELSE "remove"]_vars

\* C15 witness: the pass goes on to its next agent after the store refused the
\* offline status of the one before (out of the registry, online in the store)
C15_Witness ==
    /\ sweep.pc = "remove"
    /\ sweep.to_remove # {}
    /\ \E id \in DOMAIN db_clients \ DOMAIN clients : db_clients[id].status = "online"

\* C16 (as claimed): once the coordinator has rejected a heartbeat of the
\* agent, the agent sends no heartbeat before it has sent a register.
C16_RejectedThenReregisters ==
    [][\A c \in Calls : HeartbeatArrives(c) => ~agent.owes_register]_vars

\* the background tasks of relay id that are spawned and have not ended
JobsOf(id) == {t \in RelayTasks : relay_tasks[t].id = id /\ relay_tasks[t].pc \notin {"none", "done"}}

\* C17 (as claimed): start_relay for a pair that was in the map when it was
\* called returns success and the pair has exactly one job.
C17_RestartIsNoOp ==
    \A k \in RelayCalls :
        /\ relay_calls[k].op = "start" /\ relay_calls[k].pc = "done"
        /\ relay_calls[k].was_active
        => /\ relay_calls[k].result = "Ok"
           /\ Cardinality(JobsOf(relay_calls[k].relay_id)) = 1

\* C18 (as claimed): a start_relay call for a pair that no other call and no
\* job is about returns.
C18_DistinctStartsComplete ==
    \A k \in RelayCalls :
        (/\ relay_calls[k].op = "start" /\ relay_calls[k].pc = "write_wait"
         /\ ~relay_calls[k].was_active
         /\ \A j \in RelayCalls \ {k} : relay_calls[j].relay_id # relay_calls[k].relay_id
         /\ \A t \in RelayTasks : relay_tasks[t].id # relay_calls[k].relay_id)
        ~> (relay_calls[k].pc = "done")

\* C19 (as claimed): a stop_relay call for a pair that is in the map returns.
C19_StopReturns ==
    \A k \in RelayCalls :
        (/\ relay_calls[k].op = "stop" /\ relay_calls[k].pc = "write_wait"
         /\ relay_calls[k].relay_id \in DOMAIN active_relays)
        ~> (relay_calls[k].pc = "done")

\* C20 (as claimed): once relay_traffic has returned because one direction
\* ended, no direction forwards another byte.
C20_NoHalfOpen ==
    [][relay_conn = "returned"
       => \A d \in Directions : wire'[d].written = wire[d].written]_vars

\* C21: in each direction the bytes written to the destination are the first
\* bytes the pump has read from the source, in the source's order, and while
\* a chunk waits to be written it is the very next bytes of the source.
C21_WrittenIsPrefixOfRead ==
    \A d \in Directions :
        /\ Len(wire[d].written) <= wire[d].read
        /\ wire[d].written = SubSeq(wire[d].sent, 1, Len(wire[d].written))
        /\ pumps[d].pc = "write"
           => wire[d].written \o pumps[d].buf = SubSeq(wire[d].sent, 1, wire[d].read)

\* C21 witness: two different bytes forwarded in order in one direction while
\* the other direction has read a byte that a failed write did not forward
C21_Witness ==
    \E d \in Directions, e \in Directions :
        /\ d # e
        /\ wire[d].written = <<"b", "a">>
        /\ pumps[e].pc = "finished"
        /\ Len(wire[e].written) < wire[e].read

\* C24 (as claimed): on a connection of an Encrypted relay, what the pump has
\* written to the exit point is sealed frames, each at least a nonce and a tag
\* long, and never the bytes the inbound peer sent.
C24_EncryptedNeverPlain ==
    conn_config.transport_type = "Encrypted"
    => LET exit == wire["client_to_server"]
       IN  \/ exit.written = <<>>
           \/ /\ Len(exit.written) >= NonceLen + TagLen
              /\ exit.written # SubSeq(exit.sent, 1, Len(exit.written))

\* C25: decrypting a frame under the key and cipher that sealed it gives the
\* plaintext back, and decrypting fewer than 12 bytes is an error.
C25_RoundTrip ==
    crypto.pc = "opened"
    => /\ crypto.input = crypto.frame /\ crypto.open_key = crypto.key
          => crypto.result = [ok |-> TRUE, value |-> crypto.plaintext]
       /\ Len(crypto.input) < NonceLen => ~crypto.result.ok

\* C25 witness: a two-byte plaintext sealed by ChaCha20-Poly1305 and opened
\* again under the same key
C25_Witness ==
    /\ crypto.pc = "opened"
    /\ crypto.cipher = "ChaCha20Poly1305"
    /\ crypto.plaintext = <<"a", "b">>
    /\ crypto.open_key = crypto.key
    /\ crypto.input = crypto.frame
    /\ crypto.result = [ok |-> TRUE, value |-> <<"a", "b">>]

\* C22: when the handler of one inbound connection fails to connect to the
\* exit point, or its relay_traffic ends, nothing else changes: the job is
\* still in the map with its listener, its task is where it was, the lock
\* is as it was, and every other connection of every job is as it was.
C22_ConnectionFailureIsLocal ==
    [][\A t \in RelayTasks : \A i \in DOMAIN relay_tasks[t].conns :
          /\ relay_tasks[t].conns[i].state \in {"connecting", "relaying"}
          /\ relay_tasks'[t].conns[i].state \in {"failed", "closed"}
          => /\ active_relays' = active_relays
             /\ relay_tasks[t].id \in DOMAIN active_relays'
             /\ active_relays'[relay_tasks[t].id].listener
             /\ relay_lock' = relay_lock
             /\ relay_tasks'[t].pc = relay_tasks[t].pc
             /\ relay_tasks'[t].accepted = relay_tasks[t].accepted
             /\ \A u \in RelayTasks :
                   /\ u # t => relay_tasks'[u] = relay_tasks[u]
                   /\ \A j \in DOMAIN relay_tasks[u].conns :
                         (u # t \/ j # i)
                         => relay_tasks'[u].conns[j] = relay_tasks[u].conns[j]]_vars

\* C22 witness: a job whose first connection failed to connect and whose
\* listener then accepted a second connection, which is relaying
C22_Witness ==
    \E t \in RelayTasks :
        /\ relay_tasks[t].pc = "run"
        /\ relay_tasks[t].id \in DOMAIN active_relays
        /\ Len(relay_tasks[t].conns) = 2
        /\ relay_tasks[t].conns[1].state = "failed"
        /\ relay_tasks[t].conns[2] = [state |-> "relaying", after_failure |-> TRUE]

\* C23 (as claimed): a relay in the map has a listener exactly when its
\* descriptor carries an entry_point.
C23_ListenerIffEntryPoint ==
    \A id \in DOMAIN active_relays :
        active_relays[id].listener <=> active_relays[id].config.entry_point # ""

\* C26 (as claimed): while no write and no read has reported an error, the
\* bytes in flight on the connection are whole frames of writes that reported
\* success, and the reads that reported success have returned the written
\* plaintexts, each complete and in the order written.
C26_WholeFramesInOrder ==
    stream.pc = "open" /\ stream.read_errors = 0 /\ stream.write_errors = 0
    => /\ \E n \in 0..Len(stream.frames) :
             stream.wire = Concat(SubSeq(stream.frames, n + 1, Len(stream.frames)))
       /\ Len(stream.received) <= Len(stream.written)
       /\ stream.received = Take(stream.written, Len(stream.received))

\* n / d rounded up
CeilDiv(n, d) == (n + d - 1) \div d

\* the permit count of a rounding up to whole KiB
PermitsCeil(bytes) == Max(CeilDiv(bytes, KiB), 1)

\* C27 (as claimed): wait_for_capacity(n) and try_consume(n) charge n / 1024
\* rounded up permits.
C27_PermitsRoundUp ==
    /\ limiter.pc = "waiting" => limiter.permits = PermitsCeil(limiter.bytes)
    /\ limiter.try.bytes > 0 => limiter.try.permits = PermitsCeil(limiter.try.bytes)

\* C28 (as claimed): the bytes wait_for_capacity has admitted never exceed
\* the rate times the seconds elapsed, plus one second's burst; in replenish
\* intervals, rate bytes per second are one byte per tick and the burst is
\* rate bytes.
C28_AdmitsAtMostRate ==
    limiter.admitted <= limiter.elapsed + limiter.burst

\* C29 (as claimed): try_consume answers true exactly when the budget covers
\* the permits of the requested bytes (whole KiB, rounded up), has then taken
\* them, and otherwise has left the budget alone.
C29_TryConsumeIsExact ==
    limiter.try.bytes > 0
    => LET permits == PermitsCeil(limiter.try.bytes)
       IN  /\ limiter.try.result = (limiter.try.before >= permits)
           /\ limiter.try.result => limiter.try.after = limiter.try.before - permits
           /\ ~limiter.try.result => limiter.try.after = limiter.try.before

\* the descriptions of the rules among the first Len(outcomes) whose
\* apply_rule succeeded, in the order of the rules
RECURSIVE Succeeded(_, _)
Succeeded(rules, outcomes) ==
    IF outcomes = <<>> THEN <<>>
    ELSE LET n == Len(outcomes)
             before == Succeeded(rules, SubSeq(outcomes, 1, n - 1))
         IN  IF outcomes[n] = "ok" THEN Append(before, RuleDebug(rules[n])) ELSE before

\* C30: while a batch of rules is applied and when it is done, the rules up
\* to the current one have all been attempted in order, whatever the earlier
\* ones met, and what the task has added to applied_rules is exactly the
\* rules that succeeded, in order; a finished batch has attempted every rule
\* and its result is Ok.
C30_BatchSkipsFailedRules ==
    iptables.kind = "array"
    => /\ Len(iptables.outcomes) <= Len(iptables.rules)
       /\ iptables.pc = "apply_rule" => Len(iptables.outcomes) < Len(iptables.rules)
       /\ iptables.pc \in {"done", "idle"}
          => Len(iptables.outcomes) = Len(iptables.rules) /\ iptables.result = "Ok"
       /\ SubSeq(iptables.applied_rules, iptables.base + 1, Len(iptables.applied_rules))
             = Succeeded(iptables.rules, iptables.outcomes)

\* C30 witness: a finished batch of two rules whose first rule failed for
\* lack of privilege and whose second rule is the one addition to applied_rules
C30_Witness ==
    /\ iptables.pc = "done"
    /\ iptables.kind = "array"
    /\ Len(iptables.rules) = 2
    /\ iptables.outcomes = <<"no_permission", "ok">>
    /\ Len(iptables.applied_rules) = iptables.base + 1
    /\ iptables.applied_rules[iptables.base + 1] = RuleDebug(iptables.rules[2])

\* the proxied connections that are open: handle_connection has accounted for
\* them and has not returned
OpenProxyConnections == {c \in ProxyConns : proxy[c].pc = "select"}

\* C31 (as claimed): the active connections the stats collector reports are as
\* many as the proxied connections that are open at that moment.
C31_ActiveEqualsOpen ==
    get_stats(stats).active_connections = Cardinality(OpenProxyConnections)

RECURSIVE SumOver(_, _)
SumOver(S, f) ==
    IF S = {} THEN 0
    ELSE LET x == CHOOSE y \in S : TRUE IN f[x] + SumOver(S \ {x}, f)

\* the bytes of the chunks forwarded so far in direction d, by the proxied
\* connections and by the connection of the relay job
ForwardedBy(d) ==
    SumOver(ProxyConns, [c \in ProxyConns |-> proxy[c].forwarded[d]]) + wire[d].total_bytes

\* C32 (as claimed): at every moment the sent and received counters equal the
\* bytes of the chunks forwarded so far by all connections, those of relay
\* jobs included.
C32_CountersEqualForwarded ==
    /\ get_stats(stats).bytes_sent = ForwardedBy("client_to_server")
    /\ get_stats(stats).bytes_received = ForwardedBy("server_to_client")

\* C33: every record in the registry map is Online, so the summary's online
\* count, which is the length of the list, counts Online records only.
C33_MapRecordsAreOnline ==
    /\ \A id \in DOMAIN clients : clients[id].status = "Online"
    /\ GetSummary.online_clients
           = Cardinality({id \in DOMAIN clients : clients[id].status = "Online"})

\* C33 witness: the cleanup pass has taken a timed-out record out of the map
\* while another agent's record is in it
C33_Witness ==
    \E id \in ClientIds :
        /\ SweptOffline(id)
        /\ DOMAIN clients # {}

\* the status column's text for a ClientStatus
StatusText(status) ==
    CASE status = "Online" -> "online"
      [] status = "Offline" -> "offline"
      [] status = "Error" -> "error"

\* the status the coordinator holds in memory for id: that of its record in
\* the map, or the Offline the cleanup pass gave the record it took out
MemoryStatus(id) == IF id \in DOMAIN clients THEN clients[id].status ELSE "Offline"

\* C34 (as claimed): with a store that does not fail, whenever no handler and
\* no cleanup pass is under way the status in every store row equals the
\* status held in memory for that agent.
C34_StoreStatusEqualsMemory ==
    Quiescent /\ sweep.pc = "tick" =>
        \A id \in DOMAIN db_clients : db_clients[id].status = StatusText(MemoryStatus(id))

\* C35 (as claimed): a background task whose accept loop has failed removes
\* its job's entry from the map and gives up its hold on the map.
C35_FailedJobLeavesMap ==
    \A t \in RelayTasks :
        (relay_tasks[t].pc = "write_wait")
        ~> (/\ relay_tasks[t].id \notin DOMAIN active_relays
            /\ t \notin relay_lock.readers)

\* C36 (as claimed): the task loop works through every polled batch and comes
\* back to its tick.
C36_TaskLoopProgresses == (agent.poll_pc = "dispatch") ~> (agent.poll_pc = "tick")

\* the tasks of kind StartRelay, StopRelay or UpdateIptables among those a
\* heartbeat response brought and the agent only logged
ExecutableLogged ==
    {r.id : r \in {q \in db_tasks : /\ q.id \in agent.logged
                                    /\ q.task_type \in {"start_relay", "stop_relay",
                                                        "update_iptables"}}}

\* C37 (as claimed): no task of an executable kind that a heartbeat response
\* brought to the agent, in either loop, is only logged.
C37_NoTaskOnlyLogged == ExecutableLogged = {}

\* C38 (as claimed): the registration loop does not end while the agent runs.
C38_RegistrationLoopRuns == agent.reg_pc # "stopped"

\* C39 (as claimed): with a fixed number of worker threads and a store that
\* answers every call, every register, heartbeat and list call returns and
\* the cleanup scan completes, whatever entry a heartbeat holds meanwhile.
C39_EveryCallReturns ==
    /\ \A c \in Calls : InFlight(c) ~> (calls[c].pc = "done")
    /\ (sweep.pc = "scan_blocked") ~> (sweep.pc = "tick")

====
